---- MODULE Spec2Model ----
(***************************************************************************)
(* AstroCM: the Git-repository content layer (GithubAdapter,               *)
(* BaseGiteaAdapter, BaseGitService) and the App session state machine.    *)
(*                                                                         *)
(* Strings that the code takes apart (paths) are sequences of one          *)
(* character strings, so that split('/'), startsWith and endsWith are      *)
(* computed as the code computes them.                                     *)
(***************************************************************************)
EXTENDS Integers, Sequences, FiniteSets, TLC

\* ----------------------------------------------------------------------
\* Bounds
\* ----------------------------------------------------------------------
NumClients == 2
MaxCalls == 2
MaxFaults == 2
MaxPending == 2
MaxScanFiles == 3
\* handler runs of one open post, and commits of other clients meanwhile
MaxRuns == 2
MaxOthers == 1
\* the clock of the Dashboard, its writes, and the polls in flight per effect run
MaxTime == 6
MaxWrites == 2
MaxPolls == 1

Clients == 1..NumClients

\* ----------------------------------------------------------------------
\* Paths, contents, hashes
\* ----------------------------------------------------------------------
P_r == <<"r">>
P_pa == <<"p", "/", "a">>
P_psb == <<"p", "/", "s", "/", "b">>
P_pqc == <<"p", "q", "/", "c">>
FileUniverse == {P_r, P_pa, P_psb, P_pqc}

\* the path the write protocol is exercised on, and a bystander
WPaths == {P_pa}
Bystanders == {P_r}

Contents == {"x", "y"}
Absent == "<absent>"
\* `undefined` sha: dropped from the JSON body, falsy in `sha || ...`
NoSha == ""

\* the content hash of a blob: a function of the content alone
BlobSha(c) == "sha:" \o c

Shas == {BlobSha(c) : c \in Contents}

ShaOf(r, p) == IF r[p] = Absent THEN NoSha ELSE BlobSha(r[p])

\* ----------------------------------------------------------------------
\* The backend (contents endpoints)
\* ----------------------------------------------------------------------
Resp(status, r) == [status |-> status, remote |-> r]

\* GET /contents/{path} of a file path
ServerGet(r, p) == IF r[p] = Absent THEN Resp(404, r) ELSE Resp(200, r)

\* GitHub PUT /contents/{path}: create (no sha) or compare-and-swap update
ServerPutGithub(r, p, content, sha) ==
    IF r[p] = Absent
    THEN IF sha = NoSha THEN Resp(201, [r EXCEPT ![p] = content])
                        ELSE Resp(409, r)
    ELSE IF sha = NoSha THEN Resp(422, r)
         ELSE IF sha = ShaOf(r, p) THEN Resp(200, [r EXCEPT ![p] = content])
              ELSE Resp(409, r)

\* Gitea/Gogs POST /contents/{path}: create only
ServerPostGitea(r, p, content) ==
    IF r[p] = Absent THEN Resp(201, [r EXCEPT ![p] = content])
                     ELSE Resp(422, r)

\* Gitea/Gogs PUT /contents/{path}: compare-and-swap update only
ServerPutGitea(r, p, content, sha) ==
    IF r[p] = Absent THEN Resp(409, r)
    ELSE IF sha = NoSha THEN Resp(422, r)
         ELSE IF sha = ShaOf(r, p) THEN Resp(200, [r EXCEPT ![p] = content])
              ELSE Resp(409, r)

\* DELETE /contents/{path}
ServerDelete(r, p, sha) ==
    IF r[p] = Absent THEN Resp(404, r)
    ELSE IF sha = ShaOf(r, p) THEN Resp(200, [r EXCEPT ![p] = Absent])
         ELSE Resp(409, r)

\* what the network and the token state do to a request: served, rejected
\* as unauthenticated, or failed by the backend; only a served request
\* reaches the repository
Nets == {"ok", "unauth", "fail"}

Served(net, resp, r) ==
    IF net = "ok" THEN resp
    ELSE IF net = "unauth" THEN Resp(401, r) ELSE Resp(500, r)

\* ----------------------------------------------------------------------
\* makeRequest / makeGiteaRequest
\* ----------------------------------------------------------------------
NoErr == [kind |-> "none", status |-> 0]
HttpErr(status) == [kind |-> "http", status |-> status]
Unauthorized == [kind |-> "unauthorized", status |-> 0]
AlreadyExists == [kind |-> "exists", status |-> 0]

\* variant: a 401 is thrown like any other failed status, nothing dispatched
makeRequestSilent(status) ==
    IF ~(status \in 200..299) THEN [signal |-> FALSE, err |-> HttpErr(status)]
    ELSE [signal |-> FALSE, err |-> NoErr]

\* the outcome of one request: whether 'auth-error' is dispatched, and the
\* error thrown (NoErr: the promise resolves)
makeRequest(status) ==
    IF status = 401 THEN [signal |-> TRUE, err |-> Unauthorized]
    ELSE IF ~(status \in 200..299) THEN [signal |-> FALSE, err |-> HttpErr(status)]
    ELSE [signal |-> FALSE, err |-> NoErr]

\* error.message.includes('404')
Includes404(err) == err.kind = "http" /\ err.status = 404

\* the error kinds of the contract
IsConflict(err) == err.kind = "exists" \/ (err.kind = "http" /\ err.status \in {409, 422})
IsNotFound(err) == Includes404(err)

\* ----------------------------------------------------------------------
\* Path helpers (string operations of the adapters)
\* ----------------------------------------------------------------------
EmptyPath == << >>

\* a.startsWith(b)
StartsWith(a, b) == Len(b) <= Len(a) /\ SubSeq(a, 1, Len(b)) = b

\* a.endsWith('/')
EndsWithSlash(a) == Len(a) > 0 /\ a[Len(a)] = "/"

\* index of the last '/' in a, 0 when there is none
LastSlash(a, i) ==
    IF \E k \in 1..i : a[k] = "/"
    THEN CHOOSE k \in 1..i : a[k] = "/" /\ \A j \in (k + 1)..i : a[j] # "/"
    ELSE 0

\* a.split('/').pop()
LastSegment(a) == SubSeq(a, LastSlash(a, Len(a)) + 1, Len(a))

\* the directory a path lies in ('' for a top-level entry)
ParentOf(a) == SubSeq(a, 1, LastSlash(a, Len(a)) - 1)

\* all proper ancestors of a path that are directories, '' excluded
AncestorsOf(a) == {SubSeq(a, 1, k - 1) : k \in {j \in 2..Len(a) : a[j] = "/"}}

FilesOf(r) == {p \in DOMAIN r : r[p] # Absent}

\* git keeps no empty directory: the directories are the ancestors of files
DirsOf(r) == UNION {AncestorsOf(p) : p \in FilesOf(r)}

\* one entry of a contents listing or of a tree response
Entry(p, type, sha) == [path |-> p, name |-> LastSegment(p), type |-> type, sha |-> sha]

\* GET /contents/{dir}: the direct children of an existing directory
ListingOf(r, d) ==
    {Entry(p, "file", ShaOf(r, p)) : p \in {q \in FilesOf(r) : ParentOf(q) = d}}
    \cup {Entry(p, "dir", NoSha) : p \in {q \in DirsOf(r) : ParentOf(q) = d}}

ServerList(r, d) ==
    IF d = EmptyPath \/ d \in DirsOf(r)
    THEN [status |-> 200, list |-> ListingOf(r, d)]
    ELSE [status |-> 404, list |-> {}]

\* ----------------------------------------------------------------------
\* State
\* ----------------------------------------------------------------------
VARIABLES
    remote,       \* the repository: path -> content, or Absent
    dialect,      \* "github" or "gitea" (Gitea and Gogs share one adapter)
    pc,           \* per client: where its adapter call is suspended
    args,         \* per client: the arguments and locals of that call
    last,         \* the adapter call that completed most recently
    prev,         \* the latest successful write
    calls,        \* number of adapter calls issued
    faults,       \* number of requests that were not served
    app,          \* the React state of App
    storage,      \* sessionStorage
    login,        \* the handleLogin or restoreSession that is suspended
    pending,      \* requests of the Dashboard's adapter still in flight
    evt,          \* what the latest step of the App did
    scan,         \* the directory scan that is running or has finished
    sniff,        \* the findProductionUrl that is running or has finished
    codec,        \* a text on its way to the repository and back
    sync,         \* the Dashboard's sync indicator and its polls
    flow          \* the component handler that is running or has finished

pvars == <<remote, dialect, pc, args, last, prev, calls, faults>>
avars == <<app, storage, login, pending, evt>>
dvars == <<scan, sniff>>
xvars == <<codec, sync, flow>>
vars == <<remote, dialect, pc, args, last, prev, calls, faults,
          app, storage, login, pending, evt, scan, sniff, codec, sync, flow>>

Dialects == {"github", "gitea"}

\* sha: the hash argument; final: the hash the call will send; checked: the
\* call has looked the path up; chk: what was at the path at that moment;
\* overtaken: a write of another client succeeded while the call was pending;
\* n401/signals: 401 responses received and 'auth-error' events dispatched
\* by the call so far; heard: the status of the call's latest response and
\* what makeRequest made of it; body: what the tree response of a listFiles
\* carried ("" when none was received)
NoHeard == [status |-> 0, signal |-> FALSE, err |-> NoErr]

NoArgs == [op |-> "none", path |-> EmptyPath, content |-> "", sha |-> NoSha,
           final |-> NoSha, checked |-> FALSE, chk |-> Absent, overtaken |-> FALSE,
           n401 |-> 0, signals |-> 0, heard |-> NoHeard, body |-> ""]

NoWrite == [client |-> 0, op |-> "none", path |-> EmptyPath, sent |-> NoSha,
            content |-> "", replaced |-> Absent]

\* the discovery operations before they are called: the listings in flight
\* (path and depth), the directories a listing was requested for, those
\* whose listing failed, the hits, and what the scan returned
NoScan == [kind |-> "none", phase |-> "idle", pending |-> {}, listed |-> {},
           failed |-> {}, foundDirs |-> {}, result |-> << >>, err |-> NoErr]

\* i: the index of the file being read; asked: the reads so far, each with
\* its path, whether it was served, and the text it returned
NoSniff == [phase |-> "idle", i |-> 0, asked |-> << >>, result |-> << >>,
            found |-> FALSE, err |-> NoErr]

\* a text before it is written: op is the write that carries it, stored the
\* file at the path (exists, and its content in transport form), wrote tells
\* whether the write succeeded, value is what getFileContent returned
NoCodec == [phase |-> "idle", op |-> "none", text |-> << >>,
            stored |-> [exists |-> FALSE, content |-> << >>],
            wrote |-> FALSE, value |-> << >>, err |-> NoErr]

\* the Dashboard's sync state: lastWriteTime is 0 for null; polls counts the
\* getRepoDetails requests in flight by the lastWriteTime their checkSync
\* closed over; pushedAt is the repository's pushed_at on the server and
\* currentRepo the one of the metadata held; step, answered and returned
\* describe the latest step (returned is -1 for a failed poll)
NoSync == [isSynced |-> TRUE, lastWriteTime |-> 0,
           polls |-> [t \in 0..MaxTime |-> 0],
           now |-> 3, pushedAt |-> 0, currentRepo |-> 0,
           step |-> "none", answered |-> 0, returned |-> 0, writes |-> 0]

\* the component handler: kind is the handler that ran last, view the
\* component holding the post, post the PostData it was given (path and
\* hash), listed the hash the post list shows, log the write requests the
\* handler has issued, err and net the outcome of its latest adapter call;
\* alerted is what an alert showed, unhandled a rejection nothing caught;
\* saved counts the successful saves of the open editor, foreign tells
\* whether another client wrote since the editor's latest successful write
NoFlow == [kind |-> "none", view |-> "none", pc |-> "idle",
           post |-> [path |-> EmptyPath, sha |-> NoSha], listed |-> NoSha,
           images |-> << >>, i |-> 0, content |-> "", final |-> NoSha,
           log |-> << >>, err |-> NoErr, net |-> "ok",
           publishStatus |-> "idle", errorMessage |-> NoErr,
           isDirty |-> FALSE, alerted |-> NoErr, unhandled |-> NoErr,
           onAction |-> 0, onUpdate |-> 0, onComplete |-> 0, onBack |-> 0,
           timer |-> FALSE, refresh |-> FALSE,
           runs |-> 0, saved |-> 0, foreign |-> FALSE, others |-> 0]

\* the values of the App state
Null == "null"

StorageKeys == {"github_pat_encrypted", "crypto_key", "selected_repo",
                "service_type", "instance_url"}

ServiceTypes == {"github", "gitea", "gogs"}

\* what the instance URL field can hold: nothing, a URL, something else
InstanceUrls == {Null, "http://host", "host"}

SessionFields == {"githubToken", "user", "selectedRepo", "gitService", "serviceType"}

\* the state of App right after it mounts
AppMounted ==
    [githubToken |-> Null, user |-> Null, selectedRepo |-> Null,
     gitService |-> Null, serviceType |-> Null,
     isLoading |-> TRUE, error |-> FALSE, isLogoutConfirmVisible |-> FALSE]

NoStorage == [k \in StorageKeys |-> Null]

\* userData and repoData are the locals of the suspended handler
NoLogin == [pc |-> "none", kind |-> "none", serviceType |-> Null, instanceUrl |-> Null,
            userData |-> Null, repoData |-> Null]

NoEvt == [kind |-> "none", wasActive |-> FALSE]

\* ----------------------------------------------------------------------
\* The write requests the adapters build
\* ----------------------------------------------------------------------
Req(method, p, content, sha) ==
    [method |-> method, path |-> p, content |-> content, sha |-> sha]

\* variant: the request goes to another path than the one asked for
updateFileContentElsewhere(d, p, content, sha) ==
    Req("PUT", CHOOSE q \in Bystanders : TRUE, content, sha)

\* variant: the sha is left out of the body
updateFileContentNoSha(d, p, content, sha) == Req("PUT", p, content, NoSha)

\* variant: the latest hash is sent instead of the caller's
updateFileContentLatest(d, p, content, sha) == Req("PUT", p, content, ShaOf(remote, p))

\* updateFileContent: PUT {message, content, sha} in both adapters
updateFileContentReq(d, p, content, sha) == Req("PUT", p, content, sha)

\* createFileFromString: `if (sha) throw ... already exists`
createFileExists(sha) == sha # NoSha

\* variant: the create sends whatever hash the path has now (an upsert)
createFileUpsert(d, p, content) == Req("PUT", p, content, ShaOf(remote, p))

\* createFileFromString after the existence check: PUT without sha (GitHub),
\* POST (Gitea/Gogs)
createFileReq(d, p, content) ==
    Req(IF d = "github" THEN "PUT" ELSE "POST", p, content, NoSha)

\* variant: the looked-up hash is not sent
uploadFileDropSha(d, p, content, finalSha) ==
    Req(IF d = "github" THEN "PUT" ELSE "POST", p, content, NoSha)

\* uploadFile: GitHub always PUTs {.., sha: finalSha}; Gitea/Gogs PUTs with
\* the sha when there is one and POSTs otherwise
uploadFileReq(d, p, content, finalSha) ==
    IF d = "github" THEN Req("PUT", p, content, finalSha)
    ELSE IF finalSha # NoSha THEN Req("PUT", p, content, finalSha)
         ELSE Req("POST", p, content, NoSha)

\* variant: the latest hash is sent instead of the caller's
deleteFileLatest(d, p, sha) == Req("DELETE", p, "", ShaOf(remote, p))

\* deleteFile: DELETE {message, sha}
deleteFileReq(d, p, sha) == Req("DELETE", p, "", sha)

\* the backend's answer to a write request
ServerWrite(d, r, req) ==
    CASE req.method = "DELETE" -> ServerDelete(r, req.path, req.sha)
      [] req.method = "POST" -> ServerPostGitea(r, req.path, req.content)
      [] req.method = "PUT" /\ d = "github" ->
            ServerPutGithub(r, req.path, req.content, req.sha)
      [] req.method = "PUT" /\ d # "github" ->
            ServerPutGitea(r, req.path, req.content, req.sha)

\* variant: every failed lookup counts as "no file"
getFileShaAnyFailure(status, sha) ==
    IF makeRequest(status).err = NoErr
    THEN [err |-> NoErr, sha |-> sha]
    ELSE [err |-> NoErr, sha |-> NoSha]

\* getFileSha: the sha of the file, undefined on a 404, rethrows otherwise
getFileSha(status, sha) ==
    IF makeRequest(status).err = NoErr
    THEN [err |-> NoErr, sha |-> sha]
    ELSE IF Includes404(makeRequest(status).err)
         THEN [err |-> NoErr, sha |-> NoSha]
         ELSE [err |-> makeRequest(status).err, sha |-> NoSha]

\* variant: a missing file reads as the empty string
getFileContentLenient(status, content) ==
    IF makeRequest(status).err = NoErr
    THEN [err |-> NoErr, value |-> content]
    ELSE IF Includes404(makeRequest(status).err)
         THEN [err |-> NoErr, value |-> ""]
         ELSE [err |-> makeRequest(status).err, value |-> ""]

\* getFileContent: the decoded content of the file; every request error is
\* rethrown
getFileContent(status, content) ==
    IF makeRequest(status).err = NoErr
    THEN [err |-> NoErr, value |-> content]
    ELSE [err |-> makeRequest(status).err, value |-> ""]

\* getRepoContents: the listing; every request error is rethrown
getRepoContents(status, list) ==
    IF makeRequest(status).err = NoErr
    THEN [err |-> NoErr, list |-> list]
    ELSE [err |-> makeRequest(status).err, list |-> {}]

\* ----------------------------------------------------------------------
\* Adapter calls, one action per request
\* ----------------------------------------------------------------------
\* the record of a completed call: sent is the hash in the write request,
\* wrote tells whether a write request was issued, pre and post are what was
\* at the path before and after the call's last request, before is the
\* latest successful write that preceded it; value and list are what a read
\* returned; route and truncated describe a listFiles
Entry0(c, a, sent, wrote, pre, post, err, net) ==
    [client |-> c, op |-> a.op, path |-> a.path, content |-> a.content,
     sha |-> a.sha, sent |-> sent, wrote |-> wrote,
     checked |-> a.checked, chk |-> a.chk,
     pre |-> pre, post |-> post, err |-> err, net |-> net,
     overtaken |-> a.overtaken, n401 |-> a.n401, signals |-> a.signals,
     heard |-> a.heard,
     before |-> prev, value |-> "", list |-> {},
     body |-> a.body, route |-> "", truncated |-> (a.body = "truncated")]

NoCall == Entry0(0, NoArgs, NoSha, FALSE, Absent, Absent, NoErr, "ok")

\* the response to one request of a call is handled by makeRequest
Heard(a, status) ==
    [a EXCEPT !.n401 = @ + (IF status = 401 THEN 1 ELSE 0),
              !.signals = @ + (IF makeRequest(status).signal THEN 1 ELSE 0),
              !.heard = [status |-> status, signal |-> makeRequest(status).signal,
                         err |-> makeRequest(status).err]]

Fault(net) ==
    /\ net # "ok" => faults < MaxFaults
    /\ faults' = IF net = "ok" THEN faults ELSE faults + 1

Call(c, op, p, content, sha, next) ==
    /\ pc[c] = "idle"
    /\ calls < MaxCalls
    /\ calls' = calls + 1
    /\ pc' = [pc EXCEPT ![c] = next]
    /\ args' = [args EXCEPT ![c] = [op |-> op, path |-> p, content |-> content,
                                    sha |-> sha, final |-> sha, checked |-> FALSE,
                                    chk |-> Absent, overtaken |-> FALSE,
                                    n401 |-> 0, signals |-> 0, heard |-> NoHeard,
                                    body |-> ""]]
    /\ UNCHANGED <<remote, dialect, last, prev, faults>>

\* the call of client c ends with record e; wrote tells whether it changed
\* the repository
Return(c, e, wrote) ==
    /\ last' = e
    /\ pc' = [pc EXCEPT ![c] = "idle"]
    /\ args' = [d \in Clients |->
                  IF d = c THEN NoArgs
                  ELSE IF wrote /\ pc[d] # "idle"
                       THEN [args[d] EXCEPT !.overtaken = TRUE]
                       ELSE args[d]]
    /\ UNCHANGED <<dialect, calls>>

\* the single write request of a call reaches the backend and the call ends
WriteStep(c, stage, req, net) ==
    /\ pc[c] = stage
    /\ Fault(net)
    /\ LET resp == Served(net, ServerWrite(dialect, remote, req), remote)
           err == makeRequest(resp.status).err
       IN /\ remote' = resp.remote
          /\ prev' = IF err = NoErr
                     THEN [client |-> c, op |-> args[c].op, path |-> req.path,
                           sent |-> req.sha, content |-> req.content,
                           replaced |-> remote[req.path]]
                     ELSE prev
          /\ Return(c, Entry0(c, Heard(args[c], resp.status), req.sha, TRUE,
                              remote[req.path], resp.remote[req.path], err, net),
                    err = NoErr)

\* a call ends on a read request, without having issued a write
EndNoWrite(c, a, err, net) ==
    /\ Return(c, Entry0(c, a, NoSha, FALSE, remote[a.path], remote[a.path], err, net),
              FALSE)
    /\ UNCHANGED <<remote, prev>>

\* updateFileContent(path, newContent, msg, sha)
UpdateCall(c, p, content, sha) == Call(c, "update", p, content, sha, "update_put")

UpdatePut(c, net) ==
    WriteStep(c, "update_put",
              updateFileContentReq(dialect, args[c].path, args[c].content, args[c].sha), net)

\* deleteFile(path, sha, msg)
DeleteCall(c, p, sha) == Call(c, "delete", p, "", sha, "delete_req")

DeleteReq(c, net) ==
    WriteStep(c, "delete_req", deleteFileReq(dialect, args[c].path, args[c].sha), net)

\* the lookup `await this.getFileSha(path)` of a call
Lookup(c, net) ==
    LET resp == Served(net, ServerGet(remote, args[c].path), remote)
        a == Heard(args[c], resp.status)
    IN [got |-> getFileSha(resp.status, ShaOf(remote, args[c].path)),
        a |-> IF net = "ok"
              THEN [a EXCEPT !.checked = TRUE, !.chk = remote[args[c].path]]
              ELSE a]

\* createFileFromString(path, newContent, msg): the existence check
CreateCall(c, p, content) == Call(c, "create", p, content, NoSha, "create_sha")

CreateSha(c, net) ==
    /\ pc[c] = "create_sha"
    /\ Fault(net)
    /\ LET l == Lookup(c, net)
       IN IF l.got.err # NoErr
          THEN EndNoWrite(c, l.a, l.got.err, net)
          ELSE IF createFileExists(l.got.sha)
               THEN EndNoWrite(c, l.a, AlreadyExists, net)
               ELSE /\ pc' = [pc EXCEPT ![c] = "create_put"]
                    /\ args' = [args EXCEPT ![c] = l.a]
                    /\ UNCHANGED <<remote, dialect, last, prev, calls>>

\* createFileFromString: the write
CreatePut(c, net) ==
    WriteStep(c, "create_put",
              createFileReq(dialect, args[c].path, args[c].content), net)

\* uploadFile(path, file, msg, sha?): `sha || await this.getFileSha(path)`
UploadCall(c, p, content, sha) ==
    Call(c, "upload", p, content, sha, IF sha # NoSha THEN "upload_put" ELSE "upload_sha")

UploadSha(c, net) ==
    /\ pc[c] = "upload_sha"
    /\ Fault(net)
    /\ LET l == Lookup(c, net)
       IN IF l.got.err # NoErr
          THEN EndNoWrite(c, l.a, l.got.err, net)
          ELSE /\ pc' = [pc EXCEPT ![c] = "upload_put"]
               /\ args' = [args EXCEPT ![c] = [l.a EXCEPT !.final = l.got.sha]]
               /\ UNCHANGED <<remote, dialect, last, prev, calls>>

UploadPut(c, net) ==
    WriteStep(c, "upload_put",
              uploadFileReq(dialect, args[c].path, args[c].content, args[c].final), net)

\* getFileContent(path)
ReadCall(c, p) == Call(c, "read", p, "", NoSha, "read_req")

ReadReq(c, net) ==
    /\ pc[c] = "read_req"
    /\ Fault(net)
    /\ LET resp == Served(net, ServerGet(remote, args[c].path), remote)
           got == getFileContent(resp.status, remote[args[c].path])
       IN Return(c, [Entry0(c, Heard(args[c], resp.status), NoSha, FALSE,
                            remote[args[c].path], remote[args[c].path], got.err, net)
                     EXCEPT !.value = got.value], FALSE)
    /\ UNCHANGED <<remote, prev>>

\* getRepoContents(path)
ListCall(c, d) == Call(c, "list", d, "", NoSha, "list_req")

ListReq(c, net) ==
    /\ pc[c] = "list_req"
    /\ Fault(net)
    /\ LET sl == ServerList(remote, args[c].path)
           status == Served(net, Resp(sl.status, remote), remote).status
           got == getRepoContents(status, sl.list)
       IN Return(c, [Entry0(c, Heard(args[c], status), NoSha, FALSE,
                            Absent, Absent, got.err, net)
                     EXCEPT !.list = got.list], FALSE)
    /\ UNCHANGED <<remote, prev>>

\* the directory paths listed in the protocol runs: one that can exist and
\* one that never does
P_p == <<"p">>
P_m == <<"m">>
LDirs == {P_p, P_m}

PInit ==
    /\ remote \in {r \in [FileUniverse -> Contents \cup {Absent}] :
                     /\ \A p \in Bystanders : r[p] = "x"
                     /\ \A p \in FileUniverse \ (WPaths \cup Bystanders) : r[p] = Absent}
    /\ dialect \in Dialects
    /\ pc = [c \in Clients |-> "idle"]
    /\ args = [c \in Clients |-> NoArgs]
    /\ prev = NoWrite
    /\ last = NoCall
    /\ calls = 0
    /\ faults = 0
    /\ app = [AppMounted EXCEPT !.isLoading = FALSE]
    /\ storage = NoStorage
    /\ login = NoLogin
    /\ pending = 0
    /\ evt = NoEvt
    /\ scan = NoScan
    /\ sniff = NoSniff
    /\ codec = NoCodec
    /\ sync = NoSync
    /\ flow = NoFlow

PNext ==
    \/ \E c \in Clients, p \in WPaths, content \in Contents, sha \in Shas :
          UpdateCall(c, p, content, sha)
    \/ \E c \in Clients, net \in Nets : UpdatePut(c, net)
    \/ \E c \in Clients, p \in WPaths, sha \in Shas : DeleteCall(c, p, sha)
    \/ \E c \in Clients, net \in Nets : DeleteReq(c, net)
    \/ \E c \in Clients, p \in WPaths, content \in Contents : CreateCall(c, p, content)
    \/ \E c \in Clients, net \in Nets : CreateSha(c, net)
    \/ \E c \in Clients, net \in Nets : CreatePut(c, net)
    \/ \E c \in Clients, p \in WPaths, content \in Contents, sha \in Shas \cup {NoSha} :
          UploadCall(c, p, content, sha)
    \/ \E c \in Clients, net \in Nets : UploadSha(c, net)
    \/ \E c \in Clients, net \in Nets : UploadPut(c, net)
    \/ \E c \in Clients, p \in WPaths : ReadCall(c, p)
    \/ \E c \in Clients, net \in Nets : ReadReq(c, net)
    \/ \E c \in Clients, d \in LDirs : ListCall(c, d)
    \/ \E c \in Clients, net \in Nets : ListReq(c, net)


\* ----------------------------------------------------------------------
\* listFiles: the recursive tree request and the shallow fallback
\* ----------------------------------------------------------------------
\* GET /git/trees/{branch}?recursive=1: every blob and every tree
TreeOf(r) ==
    {Entry(p, "blob", ShaOf(r, p)) : p \in FilesOf(r)}
    \cup {Entry(p, "tree", NoSha) : p \in DirsOf(r)}

\* path ? (path.endsWith('/') ? path : path + '/') : ''
NormalizedPath(path) ==
    IF path = EmptyPath THEN EmptyPath
    ELSE IF EndsWithSlash(path) THEN path ELSE path \o <<"/">>

\* variant: trees are not filtered out
listFilesTreeAll(tree, path) ==
    {Entry(item.path, "file", item.sha) :
        item \in {t \in tree : NormalizedPath(path) = EmptyPath
                                  \/ StartsWith(t.path, NormalizedPath(path))}}

\* variant: the prefix is not closed with a slash
listFilesTreeBarePrefix(tree, path) ==
    {Entry(item.path, "file", item.sha) :
        item \in {t \in tree : t.type = "blob" /\ StartsWith(t.path, path)}}

\* GithubAdapter/BaseGiteaAdapter.listFiles, fast path: the blobs under the
\* normalized prefix, as file entries
listFilesTree(tree, path) ==
    {Entry(item.path, "file", item.sha) :
        item \in {t \in tree : t.type = "blob"
                                  /\ (NormalizedPath(path) = EmptyPath
                                        \/ StartsWith(t.path, NormalizedPath(path)))}}

\* variant: only the files of the shallow listing are returned
listFilesShallowFilesOnly(got) ==
    IF got.err = NoErr
    THEN [err |-> NoErr,
          list |-> {Entry(item.path, "file", item.sha) :
                       item \in {x \in got.list : x.type = "file"}}]
    ELSE [err |-> NoErr, list |-> {}]

\* variant: the failure of the shallow listing is rethrown
listFilesShallowStrict(got) ==
    IF got.err = NoErr
    THEN [err |-> NoErr,
          list |-> {Entry(item.path, IF item.type = "file" THEN "file" ELSE "dir", item.sha) :
                       item \in got.list}]
    ELSE [err |-> got.err, list |-> {}]

\* BaseGitService.listFiles: the shallow listing, entries typed file or dir;
\* a failed listing is caught and gives the empty list
listFilesShallow(got) ==
    IF got.err = NoErr
    THEN [err |-> NoErr,
          list |-> {Entry(item.path, IF item.type = "file" THEN "file" ELSE "dir", item.sha) :
                       item \in got.list}]
    ELSE [err |-> NoErr, list |-> {}]

\* listFiles(path): `await this.getRepoDetails()`
ListFilesCall(c, d) == Call(c, "listFiles", d, "", NoSha, "lf_repo")

LfRepo(c, net) ==
    /\ pc[c] = "lf_repo"
    /\ Fault(net)
    /\ LET status == Served(net, Resp(200, remote), remote).status
       IN /\ pc' = [pc EXCEPT ![c] = IF makeRequest(status).err = NoErr
                                     THEN "lf_tree" ELSE "lf_fallback"]
          /\ args' = [args EXCEPT ![c] = Heard(args[c], status)]
    /\ UNCHANGED <<remote, dialect, last, prev, calls>>

\* the body of a tree response: the entries it carries and its truncated
\* flag; a malformed body has no tree array
TreeBody(net, keep) ==
    [malformed |-> net = "malformed", tree |-> keep, truncated |-> keep # TreeOf(remote)]

TypeError == [kind |-> "type", status |-> 0]

\* variant: a truncated response is treated as a failure
listFilesFastStrict(body, path) ==
    IF body.malformed \/ body.truncated THEN [err |-> TypeError, list |-> {}]
    ELSE [err |-> NoErr, list |-> listFilesTree(body.tree, path)]

\* listFiles, the part of the try block after the tree request: truncation
\* is only logged; `response.tree.filter` throws when there is no tree
listFilesFast(body, path) ==
    IF body.malformed THEN [err |-> TypeError, list |-> {}]
    ELSE [err |-> NoErr, list |-> listFilesTree(body.tree, path)]

\* the tree request: served whole, served truncated (keep is what is left
\* of the tree), answered with a body that has no tree, or failed
TreeNets == Nets \cup {"malformed"}

\* the entries a tree response can carry: any part of the tree when served
TreeResponses(net) == IF net = "ok" THEN SUBSET TreeOf(remote) ELSE {TreeOf(remote)}

LfTree(c, net, keep) ==
    /\ pc[c] = "lf_tree"
    /\ Fault(net)
    /\ keep \in TreeResponses(net)
    /\ LET status == IF net = "malformed" THEN 200
                     ELSE Served(net, Resp(200, remote), remote).status
           body == TreeBody(net, keep)
           a == [Heard(args[c], status) EXCEPT !.body =
                    IF makeRequest(status).err # NoErr THEN ""
                    ELSE IF body.malformed THEN "malformed"
                    ELSE IF body.truncated THEN "truncated" ELSE "whole"]
           res == IF makeRequest(status).err # NoErr
                  THEN [err |-> makeRequest(status).err, list |-> {}]
                  ELSE listFilesFast(body, a.path)
       IN IF res.err = NoErr
          THEN /\ Return(c, [Entry0(c, a, NoSha, FALSE, Absent, Absent, NoErr, net)
                             EXCEPT !.list = res.list,
                                    !.route = "fast",
                                    !.truncated = body.truncated], FALSE)
               /\ UNCHANGED <<remote, prev>>
          ELSE /\ pc' = [pc EXCEPT ![c] = "lf_fallback"]
               /\ args' = [args EXCEPT ![c] = a]
               /\ UNCHANGED <<remote, dialect, last, prev, calls>>

\* `return super.listFiles(path)`
LfFallback(c, net) ==
    /\ pc[c] = "lf_fallback"
    /\ Fault(net)
    /\ LET sl == ServerList(remote, args[c].path)
           status == Served(net, Resp(sl.status, remote), remote).status
           res == listFilesShallow(getRepoContents(status, sl.list))
       IN Return(c, [Entry0(c, Heard(args[c], status), NoSha, FALSE,
                            Absent, Absent, res.err, net)
                     EXCEPT !.list = res.list, !.route = "fallback"], FALSE)
    /\ UNCHANGED <<remote, prev>>

\* the directories listFiles is called on: the root, two that can exist, a
\* sibling whose name extends another's, and one that never exists
P_ps == <<"p", "/", "s">>
P_pq == <<"p", "q">>
LfDirs == {EmptyPath, P_p, P_ps, P_pq, P_m}

LInit ==
    /\ remote \in [FileUniverse -> {"x", Absent}]
    /\ dialect \in Dialects
    /\ pc = [c \in Clients |-> "idle"]
    /\ args = [c \in Clients |-> NoArgs]
    /\ prev = NoWrite
    /\ last = NoCall
    /\ calls = 0
    /\ faults = 0
    /\ app = [AppMounted EXCEPT !.isLoading = FALSE]
    /\ storage = NoStorage
    /\ login = NoLogin
    /\ pending = 0
    /\ evt = NoEvt
    /\ scan = NoScan
    /\ sniff = NoSniff
    /\ codec = NoCodec
    /\ sync = NoSync
    /\ flow = NoFlow

\* the repository holds still, so one client shows all there is to see
LNext ==
    \/ \E d \in LfDirs : ListFilesCall(1, d)
    \/ \E net \in Nets : LfRepo(1, net)
    \/ /\ pc[1] = "lf_tree"
       /\ \E net \in TreeNets : \E keep \in TreeResponses(net) : LfTree(1, net, keep)
    \/ \E net \in Nets : LfFallback(1, net)

\* ----------------------------------------------------------------------
\* Directory discovery: scanDirectoryGeneric, sortPaths and the two scans
\* ----------------------------------------------------------------------
\* a.endsWith(b)
EndsWith(a, b) == Len(b) <= Len(a) /\ SubSeq(a, Len(a) - Len(b) + 1, Len(a)) = b

UpperCase == <<"A", "B", "C", "D", "E", "F", "G", "H", "I", "J", "K", "L", "M", "N", "O", "P", "Q", "R", "S", "T", "U", "V", "W", "X", "Y", "Z">>
LowerCase == <<"a", "b", "c", "d", "e", "f", "g", "h", "i", "j", "k", "l", "m", "n", "o", "p", "q", "r", "s", "t", "u", "v", "w", "x", "y", "z">>

\* the order of the characters of paths in the root collation: punctuation,
\* digits, letters
Collation == <<"_", "-", ".", "/", "0", "1", "2", "3", "4", "5", "6", "7", "8", "9", "a", "b", "c", "d", "e", "f", "g", "h", "i", "j", "k", "l", "m", "n", "o", "p", "q", "r", "s", "t", "u", "v", "w", "x", "y", "z">>

\* the characters paths are written in
Characters ==
    {Collation[i] : i \in 1..Len(Collation)} \cup {UpperCase[i] : i \in 1..26}

IsUpper(ch) == \E i \in 1..26 : UpperCase[i] = ch

\* String.prototype.toLowerCase, letter by letter
LowerOf ==
    [ch \in Characters |->
        IF IsUpper(ch) THEN LowerCase[CHOOSE i \in 1..26 : UpperCase[i] = ch] ELSE ch]

toLowerCaseChar(ch) == LowerOf[ch]

\* the place of each character in the collation, whatever its case
PrimaryOf ==
    [ch \in Characters |-> CHOOSE i \in 1..Len(Collation) : Collation[i] = LowerOf[ch]]

Primary(ch) == PrimaryOf[ch]

\* a.toLowerCase()
toLowerCase(a) == [i \in 1..Len(a) |-> toLowerCaseChar(a[i])]

\* a.split('/').length
SplitLength(a) == 1 + Cardinality({i \in 1..Len(a) : a[i] = "/"})

\* whether a character is an upper-case letter, as a number
CaseRankOf == [ch \in Characters |-> IF IsUpper(ch) THEN 1 ELSE 0]

\* compares a and b by the keys of their letters: the first position where
\* the keys differ decides; a proper prefix is less
LexCompare(key, a, b) ==
    IF \E k \in 1..Len(a) : k > Len(b) \/ key[a[k]] # key[b[k]]
    THEN IF (CHOOSE k \in 1..Len(a) :
                /\ k > Len(b) \/ key[a[k]] # key[b[k]]
                /\ \A j \in 1..(k - 1) : key[a[j]] = key[b[j]]) > Len(b)
         THEN 1
         ELSE IF \E k \in 1..Len(a) :
                    /\ k <= Len(b) /\ key[a[k]] < key[b[k]]
                    /\ \A j \in 1..(k - 1) : key[a[j]] = key[b[j]]
              THEN -1 ELSE 1
    ELSE IF Len(a) < Len(b) THEN -1 ELSE 0

\* a.localeCompare(b): the letters decide first, their case breaks ties
\* (lower case first)
localeCompare(a, b) ==
    IF LexCompare(PrimaryOf, a, b) # 0
    THEN LexCompare(PrimaryOf, a, b)
    ELSE LexCompare(CaseRankOf, a, b)

ignoredDirs ==
    {<<"n", "o", "d", "e", "_", "m", "o", "d", "u", "l", "e", "s">>,
     <<".", "g", "i", "t">>,
     <<".", "g", "i", "t", "h", "u", "b">>,
     <<"d", "i", "s", "t">>,
     <<"b", "u", "i", "l", "d">>,
     <<"v", "e", "n", "d", "o", "r">>,
     <<".", "v", "s", "c", "o", "d", "e">>,
     <<"p", "a", "g", "e", "s">>,
     <<"p", "a", "g", "e">>}

maxDepth == 4

ScanKinds == {"content", "image"}

\* the fileCheck argument of the two scans
fileCheck(kind, name) ==
    IF kind = "content"
    THEN EndsWith(name, <<".", "m", "d">>) \/ EndsWith(name, <<".", "m", "d", "x">>)
    ELSE \E ext \in {<<".", "j", "p", "g">>, <<".", "j", "p", "e", "g">>, <<".", "p", "n", "g">>, <<".", "g", "i", "f">>, <<".", "w", "e", "b", "p">>, <<".", "s", "v", "g">>} :
            EndsWith(toLowerCase(name), ext)

preferredDirNames(kind) ==
    IF kind = "content"
    THEN {<<"p", "o", "s", "t", "s">>,
          <<"p", "o", "s", "t">>,
          <<"b", "l", "o", "g">>,
          <<"c", "o", "n", "t", "e", "n", "t">>,
          <<"d", "a", "t", "a">>,
          <<"a", "r", "t", "i", "c", "l", "e", "s">>}
    ELSE {<<"i", "m", "a", "g", "e", "s">>,
          <<"a", "s", "s", "e", "t", "s">>,
          <<"s", "t", "a", "t", "i", "c">>,
          <<"p", "u", "b", "l", "i", "c">>}

\* variant: the depth of the paths is not compared
sortPathsCompareNoDepth(a, b, preferredNames) ==
    LET aIsPreferred == toLowerCase(LastSegment(a)) \in preferredNames
        bIsPreferred == toLowerCase(LastSegment(b)) \in preferredNames
    IN IF aIsPreferred /\ ~bIsPreferred THEN -1
       ELSE IF ~aIsPreferred /\ bIsPreferred THEN 1
       ELSE localeCompare(a, b)

\* the comparator of sortPaths
sortPathsCompare(a, b, preferredNames) ==
    LET aIsPreferred == toLowerCase(LastSegment(a)) \in preferredNames
        bIsPreferred == toLowerCase(LastSegment(b)) \in preferredNames
    IN IF aIsPreferred /\ ~bIsPreferred THEN -1
       ELSE IF ~aIsPreferred /\ bIsPreferred THEN 1
       ELSE IF SplitLength(a) # SplitLength(b) THEN SplitLength(a) - SplitLength(b)
       ELSE localeCompare(a, b)

\* sortPaths: Array.from(paths).sort(comparator)
sortPaths(paths, preferredNames) ==
    CHOOSE s \in [1..Cardinality(paths) -> paths] :
        \A i, j \in 1..Cardinality(paths) :
            i < j => sortPathsCompare(s[i], s[j], preferredNames) < 0

PublicImages == <<"p", "u", "b", "l", "i", "c", "/", "i", "m", "a", "g", "e", "s">>

\* sorted.findIndex(p => p.toLowerCase() === 'public/images'), 0 when none
PublicImagesIndex(sorted) ==
    IF \E i \in 1..Len(sorted) : toLowerCase(sorted[i]) = PublicImages
    THEN CHOOSE i \in 1..Len(sorted) :
            /\ toLowerCase(sorted[i]) = PublicImages
            /\ \A j \in 1..(i - 1) : toLowerCase(sorted[j]) # PublicImages
    ELSE 0

\* variant: the sorted list is returned as it is
promoteNothing(sorted) == sorted

\* scanForImageDirectories: public/images is spliced out and unshifted
promotePublicImages(sorted) ==
    LET i == PublicImagesIndex(sorted)
    IN IF i > 1
       THEN <<sorted[i]>> \o SubSeq(sorted, 1, i - 1) \o SubSeq(sorted, i + 1, Len(sorted))
       ELSE sorted

\* what scanForContentDirectories / scanForImageDirectories return
scanResult(kind, foundDirs) ==
    IF kind = "content" THEN sortPaths(foundDirs, preferredDirNames(kind))
    ELSE promotePublicImages(sortPaths(foundDirs, preferredDirNames(kind)))

\* variant: the depth limit is one level further down
scanTooDeepInclusive(depth, limit) == depth > limit

\* `if (depth >= maxDepth) return`
scanTooDeep(depth, limit) == depth >= limit

\* variant: a failed listing is rethrown
scanListingRethrown(got) ==
    [err |-> got.err, ok |-> got.err = NoErr, list |-> got.list]

\* the try/catch of scanDirectoryGeneric around the listing: a failure is
\* logged and the directory contributes nothing
scanListing(got) ==
    IF got.err = NoErr THEN [err |-> NoErr, ok |-> TRUE, list |-> got.list]
    ELSE [err |-> NoErr, ok |-> FALSE, list |-> {}]

scanHasMatchingFile(contents, kind) ==
    \E item \in contents : item.type = "file" /\ fileCheck(kind, item.name)

\* variant: the names are compared with the ignore set as they are spelled
scanSubDirsCaseSensitive(contents, kind) ==
    {item \in contents :
        /\ ~(item.type = "file" /\ fileCheck(kind, item.name))
        /\ item.type = "dir" /\ ~(item.name \in ignoredDirs)}

\* the subdirectories the scan recurses into
scanSubDirs(contents, kind) ==
    {item \in contents :
        /\ ~(item.type = "file" /\ fileCheck(kind, item.name))
        /\ item.type = "dir" /\ ~(toLowerCase(item.name) \in ignoredDirs)}

\* variant: the root is a hit like any other directory
scanIsHitAnywhere(hasMatchingFile, path) == hasMatchingFile

\* `if (hasMatchingFile && path) foundDirs.add(path)`
scanIsHit(hasMatchingFile, path) == hasMatchingFile /\ path # EmptyPath

\* the files a scanned repository can hold
ScanUniverse ==
    {<<"r", ".", "m", "d">>,
     <<"p", "o", "s", "t", "s", "/", "a", ".", "m", "d">>,
     <<"p", "o", "s", "t", "s", "/", "s", "u", "b", "/", "b", ".", "m", "d">>,
     <<".", "g", "i", "t", "/", "c", ".", "m", "d">>,
     <<"D", "i", "s", "t", "/", "d", ".", "m", "d">>,
     <<"a", "/", "b", "/", "c", "/", "d", ".", "m", "d">>,
     <<"a", "/", "b", "/", "c", "/", "d", "/", "e", ".", "m", "d">>,
     <<"b", "l", "o", "g", "/", "x", ".", "m", "d", "x">>,
     <<"p", "u", "b", "l", "i", "c", "/", "i", "m", "a", "g", "e", "s", "/", "p", ".", "P", "N", "G">>,
     <<"i", "m", "a", "g", "e", "s", "/", "i", ".", "p", "n", "g">>}

\* scanForContentDirectories() / scanForImageDirectories() up to the
\* listing of the root
ScanStart(kind) ==
    /\ scan.phase = "idle"
    /\ \A c \in Clients : pc[c] = "idle"
    /\ calls < MaxCalls
    /\ calls' = calls + 1
    /\ scan' = IF scanTooDeep(0, maxDepth)
               THEN [NoScan EXCEPT !.kind = kind, !.phase = "done",
                                   !.result = scanResult(kind, {})]
               ELSE [NoScan EXCEPT !.kind = kind, !.phase = "running",
                                   !.pending = {[path |-> EmptyPath, depth |-> 0]},
                                   !.listed = {EmptyPath}]
    /\ UNCHANGED <<remote, dialect, pc, args, last, prev, faults, sniff>>

\* the state of the scan after the listing of item has been handled:
\* found are the hits so far, started the listings issued for its
\* subdirectories; when nothing is outstanding the scan sorts and returns
ScanAfter(item, res, found, started) ==
    IF res.err # NoErr
    THEN [scan EXCEPT !.phase = "done", !.pending = {}, !.err = res.err,
                      !.failed = @ \cup {item.path}]
    ELSE [scan EXCEPT
            !.pending = (@ \ {item}) \cup started,
            !.listed = @ \cup {b.path : b \in started},
            !.failed = IF res.ok THEN @ ELSE @ \cup {item.path},
            !.foundDirs = found,
            !.phase = IF (scan.pending \ {item}) \cup started = {}
                      THEN "done" ELSE "running",
            !.result = IF (scan.pending \ {item}) \cup started = {}
                       THEN scanResult(scan.kind, found) ELSE << >>]

\* the hits after the listing of item: `if (hasMatchingFile && path)
\* foundDirs.add(path)`; a failed listing adds nothing
ScanFound(item, res) ==
    IF res.ok /\ scanIsHit(scanHasMatchingFile(res.list, scan.kind), item.path)
    THEN scan.foundDirs \cup {item.path} ELSE scan.foundDirs

\* the listings issued for the subdirectories of item: each recursive call
\* that passes `if (depth >= maxDepth) return`
ScanStarted(item, res) ==
    IF res.ok
    THEN {b \in {[path |-> d.path, depth |-> item.depth + 1] :
                    d \in scanSubDirs(res.list, scan.kind)} :
             ~scanTooDeep(b.depth, maxDepth)}
    ELSE {}

\* the answer to the listing request of a directory
ScanGot(path, net) ==
    getRepoContents(Served(net, Resp(ServerList(remote, path).status, remote), remote).status,
                    ServerList(remote, path).list)

\* the listing of one directory comes back: the rest of that
\* scanDirectoryGeneric up to the listings of its subdirectories, and, when
\* it was the last one outstanding, the sort that ends the scan
ScanResponse(item, net) ==
    /\ scan.phase = "running"
    /\ item \in scan.pending
    /\ Fault(net)
    /\ \E res \in {scanListing(ScanGot(item.path, net))} :
          \E found \in {ScanFound(item, res)}, started \in {ScanStarted(item, res)} :
              scan' = ScanAfter(item, res, found, started)
    /\ UNCHANGED <<remote, dialect, pc, args, last, prev, calls, sniff>>

\* the repositories scanned: any MaxScanFiles files of the universe
SInit ==
    /\ remote \in {r \in [ScanUniverse -> {"x", Absent}] :
                     Cardinality({p \in ScanUniverse : r[p] # Absent}) <= MaxScanFiles}
    /\ dialect = "github"
    /\ pc = [c \in Clients |-> "idle"]
    /\ args = [c \in Clients |-> NoArgs]
    /\ prev = NoWrite
    /\ last = NoCall
    /\ calls = 0
    /\ faults = 0
    /\ app = [AppMounted EXCEPT !.isLoading = FALSE]
    /\ storage = NoStorage
    /\ login = NoLogin
    /\ pending = 0
    /\ evt = NoEvt
    /\ scan = NoScan
    /\ sniff = NoSniff
    /\ codec = NoCodec
    /\ sync = NoSync
    /\ flow = NoFlow

SNext ==
    \/ \E kind \in ScanKinds : ScanStart(kind)
    \/ \E item \in scan.pending, net \in Nets : ScanResponse(item, net)

\* ----------------------------------------------------------------------
\* Production URL: findProductionUrl
\* ----------------------------------------------------------------------
MaxSniffFiles == 2

JsSiteRegex == "jsSiteRegex"
YamlSiteRegex == "yamlSiteRegex"

\* filesToScan, then package.json
filesToScan ==
    <<[path |-> <<"a", "s", "t", "r", "o", ".", "c", "o", "n", "f", "i", "g", ".", "m", "j", "s">>, regex |-> JsSiteRegex],
      [path |-> <<"a", "s", "t", "r", "o", ".", "c", "o", "n", "f", "i", "g", ".", "t", "s">>, regex |-> JsSiteRegex],
      [path |-> <<"a", "s", "t", "r", "o", ".", "c", "o", "n", "f", "i", "g", ".", "j", "s">>, regex |-> JsSiteRegex],
      [path |-> <<"s", "r", "c", "/", "c", "o", "n", "f", "i", "g", ".", "y", "a", "m", "l">>, regex |-> YamlSiteRegex],
      [path |-> <<"s", "r", "c", "/", "c", "o", "n", "f", "i", "g", ".", "y", "m", "l">>, regex |-> YamlSiteRegex],
      [path |-> <<"s", "r", "c", "/", "c", "o", "n", "f", "i", "g", ".", "t", "s">>, regex |-> JsSiteRegex],
      [path |-> <<"s", "r", "c", "/", "c", "o", "n", "f", "i", "g", ".", "j", "s">>, regex |-> JsSiteRegex]>>

PackageJson == <<"p", "a", "c", "k", "a", "g", "e", ".", "j", "s", "o", "n">>

\* the files findProductionUrl reads, in the order it reads them
SniffOrder == [k \in 1..(Len(filesToScan) + 1) |->
                  IF k <= Len(filesToScan) THEN filesToScan[k].path ELSE PackageJson]

\* the texts a file may hold and how each one reads: as a line `key: 'value'`
\* of a script (quoted value), as a line `key: value` of YAML (bare value),
\* or as a JSON object with one member "key": "value"
SniffLine ==
    [t \in {"site: 'https://a.dev/'", "url: \"https://b.dev\"", "site: https://c.dev//",
            "title: 'Blog'", "{\"homepage\": \"https://d.dev/\"}",
            "{\"homepage\": \"ftp://e.dev\"}"} |->
        CASE t = "site: 'https://a.dev/'" ->
                [form |-> "script", key |-> "site", value |-> <<"h", "t", "t", "p", "s", ":", "/", "/", "a", ".", "d", "e", "v", "/">>]
          [] t = "url: \"https://b.dev\"" ->
                [form |-> "script", key |-> "url", value |-> <<"h", "t", "t", "p", "s", ":", "/", "/", "b", ".", "d", "e", "v">>]
          [] t = "site: https://c.dev//" ->
                [form |-> "yaml", key |-> "site", value |-> <<"h", "t", "t", "p", "s", ":", "/", "/", "c", ".", "d", "e", "v", "/", "/">>]
          [] t = "title: 'Blog'" ->
                [form |-> "script", key |-> "title", value |-> <<"B", "l", "o", "g">>]
          [] t = "{\"homepage\": \"https://d.dev/\"}" ->
                [form |-> "json", key |-> "homepage", value |-> <<"h", "t", "t", "p", "s", ":", "/", "/", "d", ".", "d", "e", "v", "/">>]
          [] t = "{\"homepage\": \"ftp://e.dev\"}" ->
                [form |-> "json", key |-> "homepage", value |-> <<"f", "t", "p", ":", "/", "/", "e", ".", "d", "e", "v">>]]

SniffTexts == DOMAIN SniffLine

\* https?:\/\/ followed by at least one character
IsHttpUrl(v) ==
    \/ StartsWith(v, <<"h", "t", "t", "p", ":", "/", "/">>) /\ Len(v) > 7
    \/ StartsWith(v, <<"h", "t", "t", "p", "s", ":", "/", "/">>) /\ Len(v) > 8

NoMatch == << >>

\* content.match(jsSiteRegex)[1]: a site entry with a quoted http(s) URL
jsSiteMatch(text) ==
    IF /\ SniffLine[text].form = "script"
       /\ SniffLine[text].key = "site"
       /\ IsHttpUrl(SniffLine[text].value)
    THEN SniffLine[text].value ELSE NoMatch

\* content.match(yamlSiteRegex)[1]: a line that starts with site or url and
\* holds an http(s) URL, quoted or not
yamlSiteMatch(text) ==
    IF /\ SniffLine[text].form \in {"script", "yaml"}
       /\ SniffLine[text].key \in {"site", "url"}
       /\ IsHttpUrl(SniffLine[text].value)
    THEN SniffLine[text].value ELSE NoMatch

\* JSON.parse(content).homepage when it is a string that starts with 'http';
\* a text that is not JSON makes JSON.parse throw, which is caught
homepageMatch(text) ==
    IF /\ SniffLine[text].form = "json"
       /\ SniffLine[text].key = "homepage"
       /\ StartsWith(SniffLine[text].value, <<"h", "t", "t", "p">>)
    THEN SniffLine[text].value ELSE NoMatch

\* variant: every trailing slash is removed
stripTrailingSlashes(v) ==
    SubSeq(v, 1, IF \E k \in 1..Len(v) : v[k] # "/"
                 THEN CHOOSE k \in 1..Len(v) :
                         v[k] # "/" /\ \A j \in (k + 1)..Len(v) : v[j] = "/"
                 ELSE 0)

\* .replace(/\/$/, '')
stripTrailingSlash(v) ==
    IF Len(v) > 0 /\ v[Len(v)] = "/" THEN SubSeq(v, 1, Len(v) - 1) ELSE v

\* variant: a failed read is rethrown
sniffReadRethrown(got) == [err |-> got.err, ok |-> got.err = NoErr, text |-> got.value]

\* try { await this.getFileContent(path) ... } catch (error) { }
sniffRead(got) == [err |-> NoErr, ok |-> got.err = NoErr, text |-> got.value]

\* what the k-th file yields when its text was read
sniffMatch(k, text) ==
    IF k > Len(filesToScan) THEN homepageMatch(text)
    ELSE IF filesToScan[k].regex = JsSiteRegex THEN jsSiteMatch(text)
    ELSE yamlSiteMatch(text)

\* the answer to the read of a file
SniffGot(path, net) ==
    getFileContent(Served(net, ServerGet(remote, path), remote).status, remote[path])

\* findProductionUrl() up to the first read
SniffStart ==
    /\ sniff.phase = "idle"
    /\ \A c \in Clients : pc[c] = "idle"
    /\ calls < MaxCalls
    /\ calls' = calls + 1
    /\ sniff' = [NoSniff EXCEPT !.phase = "reading", !.i = 1]
    /\ UNCHANGED <<remote, dialect, pc, args, last, prev, faults, scan>>

\* the state after the read of file k: return the match, go on to the next
\* file, or return null after package.json
SniffAfter(k, read, match) ==
    IF read.err # NoErr
    THEN [sniff EXCEPT !.phase = "done", !.err = read.err,
                       !.asked = Append(@, [path |-> SniffOrder[k], ok |-> read.ok,
                                            text |-> read.text])]
    ELSE [sniff EXCEPT
            !.asked = Append(@, [path |-> SniffOrder[k], ok |-> read.ok,
                                 text |-> read.text]),
            !.phase = IF match # NoMatch \/ k = Len(SniffOrder) THEN "done" ELSE "reading",
            !.i = IF match # NoMatch \/ k = Len(SniffOrder) THEN k ELSE k + 1,
            !.found = match # NoMatch,
            !.result = IF match # NoMatch THEN stripTrailingSlash(match) ELSE << >>]

\* the read of the current file comes back: the rest of findProductionUrl up
\* to the next read or to its return
SniffResponse(net) ==
    /\ sniff.phase = "reading"
    /\ Fault(net)
    /\ \E read \in {sniffRead(SniffGot(SniffOrder[sniff.i], net))} :
          \E match \in {IF read.ok THEN sniffMatch(sniff.i, read.text) ELSE NoMatch} :
              sniff' = SniffAfter(sniff.i, read, match)
    /\ UNCHANGED <<remote, dialect, pc, args, last, prev, calls, scan>>

SniffPaths == {SniffOrder[k] : k \in 1..Len(SniffOrder)}

\* the repositories read: any MaxSniffFiles of the files, with any text
FInit ==
    /\ remote \in {r \in [SniffPaths -> SniffTexts \cup {Absent}] :
                     Cardinality({p \in SniffPaths : r[p] # Absent}) <= MaxSniffFiles}
    /\ dialect = "github"
    /\ pc = [c \in Clients |-> "idle"]
    /\ args = [c \in Clients |-> NoArgs]
    /\ prev = NoWrite
    /\ last = NoCall
    /\ calls = 0
    /\ faults = 0
    /\ app = [AppMounted EXCEPT !.isLoading = FALSE]
    /\ storage = NoStorage
    /\ login = NoLogin
    /\ pending = 0
    /\ evt = NoEvt
    /\ scan = NoScan
    /\ sniff = NoSniff
    /\ codec = NoCodec
    /\ sync = NoSync
    /\ flow = NoFlow

FNext ==
    \/ SniffStart
    \/ \E net \in Nets : SniffResponse(net)

\* ----------------------------------------------------------------------
\* Text contents: base64Encode, the write bodies, getFileContent's decoding
\* ----------------------------------------------------------------------
\* the characters of the texts written, each with its UTF-8 bytes; "e'" is
\* the letter e with an acute accent, "?" the replacement character
Utf8Of ==
    [ch \in {"d", "a", "t", ":", ",", "Q", "=", "A", "x", "e'", "?"} |->
        CASE ch = "d" -> <<100>> [] ch = "a" -> <<97>> [] ch = "t" -> <<116>>
          [] ch = ":" -> <<58>> [] ch = "," -> <<44>> [] ch = "Q" -> <<81>>
          [] ch = "=" -> <<61>> [] ch = "A" -> <<65>> [] ch = "x" -> <<120>>
          [] ch = "e'" -> <<195, 169>> [] ch = "?" -> <<239, 191, 189>>]

\* new TextEncoder().encode(str)
RECURSIVE TextEncode(_)
TextEncode(str) ==
    IF str = << >> THEN << >> ELSE Utf8Of[Head(str)] \o TextEncode(Tail(str))

\* new TextDecoder('utf-8').decode(bytes): a byte sequence that is no
\* character of the texts decodes to the replacement character
RECURSIVE TextDecode(_)
TextDecode(bytes) ==
    IF bytes = << >> THEN << >>
    ELSE IF \E ch \in DOMAIN Utf8Of : StartsWith(bytes, Utf8Of[ch])
         THEN LET ch == CHOOSE c \in DOMAIN Utf8Of : StartsWith(bytes, Utf8Of[c])
              IN <<ch>> \o TextDecode(SubSeq(bytes, Len(Utf8Of[ch]) + 1, Len(bytes)))
         ELSE <<"?">> \o TextDecode(Tail(bytes))

\* the base64 alphabet: the digit of value v is Base64Digits[v + 1]
Base64Digits ==
    <<"A", "B", "C", "D", "E", "F", "G", "H", "I", "J", "K", "L", "M", "N", "O", "P",
      "Q", "R", "S", "T", "U", "V", "W", "X", "Y", "Z", "a", "b", "c", "d", "e", "f",
      "g", "h", "i", "j", "k", "l", "m", "n", "o", "p", "q", "r", "s", "t", "u", "v",
      "w", "x", "y", "z", "0", "1", "2", "3", "4", "5", "6", "7", "8", "9", "+", "/">>

Base64Value(ch) == (CHOOSE i \in 1..64 : Base64Digits[i] = ch) - 1

\* btoa(binary): three bytes make four digits; one or two bytes left over
\* make two or three digits and padding
RECURSIVE btoa(_)
btoa(bytes) ==
    IF bytes = << >> THEN << >>
    ELSE IF Len(bytes) = 1
    THEN <<Base64Digits[(bytes[1] \div 4) + 1],
           Base64Digits[((bytes[1] % 4) * 16) + 1], "=", "=">>
    ELSE IF Len(bytes) = 2
    THEN <<Base64Digits[(bytes[1] \div 4) + 1],
           Base64Digits[((bytes[1] % 4) * 16) + (bytes[2] \div 16) + 1],
           Base64Digits[((bytes[2] % 16) * 4) + 1], "=">>
    ELSE <<Base64Digits[(bytes[1] \div 4) + 1],
           Base64Digits[((bytes[1] % 4) * 16) + (bytes[2] \div 16) + 1],
           Base64Digits[((bytes[2] % 16) * 4) + (bytes[3] \div 64) + 1],
           Base64Digits[(bytes[3] % 64) + 1]>>
         \o btoa(SubSeq(bytes, 4, Len(bytes)))

\* whether a string is base64: groups of four digits, the last one possibly
\* padded
IsBase64(b64) ==
    /\ Len(b64) % 4 = 0
    /\ \A i \in 1..Len(b64) :
          \/ \E v \in 1..64 : Base64Digits[v] = b64[i]
          \/ b64[i] = "=" /\ i > Len(b64) - 2 /\ \A j \in i..Len(b64) : b64[j] = "="

\* atob(b64) of a base64 string
RECURSIVE atob(_)
atob(b64) ==
    IF b64 = << >> THEN << >>
    ELSE LET v1 == Base64Value(b64[1])
             v2 == Base64Value(b64[2])
         IN IF b64[3] = "=" THEN <<(v1 * 4) + (v2 \div 16)>>
            ELSE IF b64[4] = "="
            THEN <<(v1 * 4) + (v2 \div 16),
                   ((v2 % 16) * 16) + (Base64Value(b64[3]) \div 4)>>
            ELSE <<(v1 * 4) + (v2 \div 16),
                   ((v2 % 16) * 16) + (Base64Value(b64[3]) \div 4),
                   ((Base64Value(b64[3]) % 4) * 64) + Base64Value(b64[4])>>
                 \o atob(SubSeq(b64, 5, Len(b64)))

\* base64Encode(str)
base64Encode(str) == btoa(TextEncode(str))

\* a value of a request body: undefined members are left out by JSON.stringify
Undefined == [defined |-> FALSE, value |-> << >>]
Defined(v) == [defined |-> TRUE, value |-> v]

DataPrefix == <<"d", "a", "t", "a", ":">>

\* newContent.split(',')[1]
SplitComma1(str) ==
    IF ~\E i \in 1..Len(str) : str[i] = "," THEN Undefined
    ELSE LET first == CHOOSE i \in 1..Len(str) :
                         str[i] = "," /\ \A j \in 1..(i - 1) : str[j] # ","
             rest == SubSeq(str, first + 1, Len(str))
         IN IF ~\E i \in 1..Len(rest) : rest[i] = "," THEN Defined(rest)
            ELSE Defined(SubSeq(rest, 1, (CHOOSE i \in 1..Len(rest) :
                            rest[i] = "," /\ \A j \in 1..(i - 1) : rest[j] # ",") - 1))

\* getFileContent after the request: `if (fileData.content && ...)` decodes,
\* anything else throws 'Could not decode file content.'
decodeFileContent(content) ==
    IF content # << >>
    THEN [err |-> NoErr, value |-> TextDecode(atob(content))]
    ELSE [err |-> [kind |-> "decode", status |-> 0], value |-> << >>]

\* the content member of updateFileContent's body: GitHub encodes the text;
\* Gitea/Gogs send the part after the comma of a text that starts with
\* 'data:' as it is
contentOfUpdate(d, newContent) ==
    IF d # "github" /\ StartsWith(newContent, DataPrefix)
    THEN SplitComma1(newContent)
    ELSE Defined(base64Encode(newContent))

\* the content member of createFileFromString's body
contentOfCreate(d, newContent) == Defined(base64Encode(newContent))

\* the backend stores the content of a write whose body is well formed and
\* whose precondition holds: a create finds no file, an update carries the
\* hash of the file
CodecServerWrite(stored, op, content, current) ==
    IF ~content.defined \/ ~IsBase64(content.value) THEN [status |-> 422, stored |-> stored]
    ELSE IF op = "create"
    THEN IF stored.exists THEN [status |-> 422, stored |-> stored]
         ELSE [status |-> 201, stored |-> [exists |-> TRUE, content |-> content.value]]
    ELSE IF ~stored.exists \/ ~current THEN [status |-> 409, stored |-> stored]
         ELSE [status |-> 200, stored |-> [exists |-> TRUE, content |-> content.value]]

\* the texts written
CodecTexts ==
    {<< >>, <<"A">>, <<"x", "A">>, <<"x", "e'", "A">>, <<"e'">>, <<"d", "a", "t", "a">>,
     <<"d", "a", "t", "a", ":", ",", "Q", "Q", "=", "=">>, <<"d", "a", "t", "a", ":", "x">>, <<"d", "a", "t", "a", ":", ",">>}

\* createFileFromString(path, text, msg) after its existence check, or
\* updateFileContent(path, text, msg, sha): the write request is sent
CodecWriteCall(op, text) ==
    /\ codec.phase = "idle"
    /\ op = "create" <=> ~codec.stored.exists
    /\ codec' = [codec EXCEPT !.phase = "writing", !.op = op, !.text = text]
    /\ UNCHANGED dialect

\* the answer to the write request; current: the sha sent is the file's
CodecWriteResponse(net, current) ==
    /\ codec.phase = "writing"
    /\ \E resp \in {CodecServerWrite(codec.stored, codec.op,
                       IF codec.op = "create" THEN contentOfCreate(dialect, codec.text)
                       ELSE contentOfUpdate(dialect, codec.text), current)} :
          \E status \in {IF net = "ok" THEN resp.status
                         ELSE IF net = "unauth" THEN 401 ELSE 500} :
              codec' = [codec EXCEPT
                          !.phase = "written",
                          !.stored = IF net = "ok" THEN resp.stored ELSE @,
                          !.wrote = makeRequest(status).err = NoErr,
                          !.err = makeRequest(status).err]
    /\ UNCHANGED dialect

\* getFileContent(path)
CodecReadCall ==
    /\ codec.phase = "written"
    /\ codec' = [codec EXCEPT !.phase = "reading", !.err = NoErr]
    /\ UNCHANGED dialect

CodecReadResponse(net) ==
    /\ codec.phase = "reading"
    /\ \E status \in {IF net # "ok" THEN (IF net = "unauth" THEN 401 ELSE 500)
                      ELSE IF codec.stored.exists THEN 200 ELSE 404} :
          \E got \in {IF makeRequest(status).err # NoErr
                      THEN [err |-> makeRequest(status).err, value |-> << >>]
                      ELSE decodeFileContent(codec.stored.content)} :
              codec' = [codec EXCEPT !.phase = "read", !.err = got.err,
                                     !.value = got.value]
    /\ UNCHANGED dialect

\* either adapter, on a path that holds nothing or a file
CInit ==
    /\ remote = [p \in FileUniverse |-> Absent]
    /\ dialect \in Dialects
    /\ pc = [c \in Clients |-> "idle"]
    /\ args = [c \in Clients |-> NoArgs]
    /\ prev = NoWrite
    /\ last = NoCall
    /\ calls = 0
    /\ faults = 0
    /\ app = [AppMounted EXCEPT !.isLoading = FALSE]
    /\ storage = NoStorage
    /\ login = NoLogin
    /\ pending = 0
    /\ evt = NoEvt
    /\ scan = NoScan
    /\ sniff = NoSniff
    /\ codec \in {[NoCodec EXCEPT !.stored = st] :
                    st \in {[exists |-> FALSE, content |-> << >>],
                            [exists |-> TRUE, content |-> base64Encode(<<"x">>)]}}
    /\ sync = NoSync
    /\ flow = NoFlow

CNext ==
    \/ \E op \in {"create", "update"}, text \in CodecTexts : CodecWriteCall(op, text)
    \/ \E net \in Nets, current \in BOOLEAN : CodecWriteResponse(net, current)
    \/ CodecReadCall
    \/ \E net \in Nets : CodecReadResponse(net)

\* ----------------------------------------------------------------------
\* App: login, session restore, logout and the 'auth-error' listener
\* ----------------------------------------------------------------------
\* the Dashboard is rendered
Active(a) ==
    /\ ~a.isLoading
    /\ a.gitService # Null /\ a.user # Null
    /\ a.selectedRepo # Null /\ a.serviceType # Null

\* variant: the instance URL is left in sessionStorage
performSimpleLogoutKeepsUrl(st) ==
    [k \in StorageKeys |-> IF k = "instance_url" THEN st[k] ELSE Null]

\* performSimpleLogout, sessionStorage part: the five removeItem calls
performSimpleLogoutStorage(st) == [k \in StorageKeys |-> Null]

\* variant: the adapter is kept
performSimpleLogoutKeepsService(a) ==
    [a EXCEPT !.githubToken = Null, !.user = Null, !.selectedRepo = Null,
              !.serviceType = Null, !.error = FALSE]

\* performSimpleLogout, state part: the five setters and setError(null)
performSimpleLogoutState(a) ==
    [a EXCEPT !.githubToken = Null, !.user = Null, !.selectedRepo = Null,
              !.gitService = Null, !.serviceType = Null, !.error = FALSE]

Logout ==
    /\ app' = performSimpleLogoutState(app)
    /\ storage' = performSimpleLogoutStorage(storage)

Evt(kind) == evt' = [kind |-> kind, wasActive |-> Active(app)]

\* the page is (re)loaded: App mounts, the restore effect reads
\* sessionStorage and starts restoreSession when the four entries are there
Reload ==
    /\ pending' = 0
    /\ IF /\ storage["github_pat_encrypted"] # Null /\ storage["crypto_key"] # Null
          /\ storage["selected_repo"] # Null /\ storage["service_type"] # Null
       THEN /\ app' = AppMounted
            /\ login' = [NoLogin EXCEPT !.pc = "decrypt", !.kind = "restore",
                                        !.serviceType = storage["service_type"],
                                        !.instanceUrl = storage["instance_url"]]
       ELSE /\ app' = [AppMounted EXCEPT !.isLoading = FALSE]
            /\ login' = NoLogin
    /\ Evt("reload")
    /\ UNCHANGED storage

\* the connect form is rendered and can be submitted
FormShown == ~app.isLoading /\ ~Active(app) /\ login.pc = "none"

\* handleLogin up to its first await
HandleLogin(repoUrlOk, st, url) ==
    /\ FormShown
    /\ IF ~repoUrlOk
       THEN /\ app' = [app EXCEPT !.error = TRUE, !.isLoading = FALSE]
            /\ login' = NoLogin
       ELSE IF st \in {"gitea", "gogs"} /\ url # "http://host"
            THEN /\ app' = [app EXCEPT !.error = TRUE, !.isLoading = FALSE]
                 /\ login' = NoLogin
            ELSE /\ app' = [app EXCEPT !.error = FALSE, !.isLoading = TRUE]
                 /\ login' = [NoLogin EXCEPT !.pc = "verify", !.kind = "login",
                                             !.serviceType = st, !.instanceUrl = url]
    /\ Evt("submit")
    /\ UNCHANGED <<storage, pending>>

\* the catch and finally blocks of handleLogin and restoreSession:
\* (setError,) performSimpleLogout, setIsLoading(false)
LoginFails ==
    /\ app' = [performSimpleLogoutState(app) EXCEPT !.isLoading = FALSE]
    /\ storage' = performSimpleLogoutStorage(storage)
    /\ login' = NoLogin

\* restoreSession up to verifyToken: the key is imported and the token
\* decrypted; a self-hosted service needs the stored instance URL
RestoreDecrypt(ok) ==
    /\ login.pc = "decrypt"
    /\ IF ~ok \/ (login.serviceType \in {"gitea", "gogs"} /\ login.instanceUrl = Null)
       THEN LoginFails /\ Evt("login-failed")
       ELSE /\ login' = [login EXCEPT !.pc = "verify"]
            /\ Evt("decrypted")
            /\ UNCHANGED <<app, storage>>
    /\ UNCHANGED pending

\* the response to verifyToken
VerifyResponse(status) ==
    /\ login.pc = "verify"
    /\ IF makeRequest(status).err = NoErr
       THEN /\ login' = [login EXCEPT !.pc = "repo", !.userData = "user"]
            /\ Evt("verified")
            /\ UNCHANGED <<app, storage>>
       ELSE /\ LoginFails
            /\ Evt(IF makeRequest(status).signal THEN "auth-error" ELSE "login-failed")
    /\ UNCHANGED pending

\* the repository metadata a getRepoDetails returns
RepoData(push) == IF push THEN "repo" ELSE "repo:read-only"

\* variant: the permission is not looked at
hasPushPermissionIgnored(repoData) == TRUE

\* `repoData.permissions?.push`
hasPushPermission(repoData) == repoData = RepoData(TRUE)

\* the response to getRepoDetails, and the permission check
RepoResponse(status, push) ==
    /\ login.pc = "repo"
    /\ IF makeRequest(status).err # NoErr
       THEN /\ LoginFails
            /\ Evt(IF makeRequest(status).signal THEN "auth-error" ELSE "login-failed")
       ELSE IF ~hasPushPermission(RepoData(push))
            THEN LoginFails /\ Evt("login-failed")
            ELSE IF login.kind = "login"
                 THEN /\ login' = [login EXCEPT !.pc = "crypto",
                                                !.repoData = RepoData(push)]
                      /\ Evt("permitted")
                      /\ UNCHANGED <<app, storage>>
                 ELSE /\ app' = [app EXCEPT !.user = login.userData,
                                            !.githubToken = "token",
                                            !.selectedRepo = RepoData(push),
                                            !.gitService = login.serviceType,
                                            !.serviceType = login.serviceType,
                                            !.isLoading = FALSE]
                      /\ login' = NoLogin
                      /\ Evt("restore-ok")
                      /\ UNCHANGED storage
    /\ UNCHANGED pending

\* handleLogin after the key was generated and the token encrypted: the
\* sessionStorage entries and the state are set
LoginCommit ==
    /\ login.pc = "crypto"
    /\ storage' = [storage EXCEPT !["github_pat_encrypted"] = "encrypted",
                                  !["crypto_key"] = "jwk",
                                  !["selected_repo"] = login.repoData,
                                  !["service_type"] = login.serviceType,
                                  !["instance_url"] =
                                      IF login.instanceUrl # Null
                                      THEN login.instanceUrl ELSE @]
    /\ app' = [app EXCEPT !.user = login.userData, !.githubToken = "token",
                          !.selectedRepo = login.repoData,
                          !.gitService = login.serviceType,
                          !.serviceType = login.serviceType,
                          !.isLoading = FALSE]
    /\ login' = NoLogin
    /\ Evt("login-ok")
    /\ UNCHANGED pending

\* handleRequestLogout, from the Dashboard
RequestLogout ==
    /\ Active(app)
    /\ app' = [app EXCEPT !.isLogoutConfirmVisible = TRUE]
    /\ Evt("logout-requested")
    /\ UNCHANGED <<storage, login, pending>>

\* handleCancelLogout
CancelLogout ==
    /\ app.isLogoutConfirmVisible /\ ~app.isLoading
    /\ app' = [app EXCEPT !.isLogoutConfirmVisible = FALSE]
    /\ Evt("logout-cancelled")
    /\ UNCHANGED <<storage, login, pending>>

\* handleConfirmLogout
ConfirmLogout ==
    /\ app.isLogoutConfirmVisible /\ ~app.isLoading
    /\ app' = [performSimpleLogoutState(app) EXCEPT !.isLogoutConfirmVisible = FALSE]
    /\ storage' = performSimpleLogoutStorage(storage)
    /\ Evt("logout")
    /\ UNCHANGED <<login, pending>>

\* the Dashboard issues a request through its adapter
DashRequest ==
    /\ Active(app)
    /\ pending < MaxPending
    /\ pending' = pending + 1
    /\ Evt("request")
    /\ UNCHANGED <<app, storage, login>>

\* the response to a request of the adapter: makeRequest, and the
\* 'auth-error' listener when the event is dispatched
DashResponse(status) ==
    /\ pending > 0
    /\ pending' = pending - 1
    /\ IF makeRequest(status).signal
       THEN Logout /\ Evt("auth-error")
       ELSE Evt("response") /\ UNCHANGED <<app, storage>>
    /\ UNCHANGED login

Statuses == {200, 401, 404, 500}

\* the App before anyone has logged in; no adapter call is running
AInit ==
    /\ remote = [p \in FileUniverse |-> Absent]
    /\ dialect = "github"
    /\ pc = [c \in Clients |-> "idle"]
    /\ args = [c \in Clients |-> NoArgs]
    /\ prev = NoWrite
    /\ last = NoCall
    /\ calls = 0
    /\ faults = 0
    /\ app = [AppMounted EXCEPT !.isLoading = FALSE]
    /\ storage = NoStorage
    /\ login = NoLogin
    /\ pending = 0
    /\ evt = NoEvt
    /\ scan = NoScan
    /\ sniff = NoSniff
    /\ codec = NoCodec
    /\ sync = NoSync
    /\ flow = NoFlow

ANext ==
    \/ Reload
    \/ \E ok \in BOOLEAN, st \in ServiceTypes, url \in InstanceUrls : HandleLogin(ok, st, url)
    \/ \E ok \in BOOLEAN : RestoreDecrypt(ok)
    \/ \E status \in Statuses : VerifyResponse(status)
    \/ \E status \in Statuses, push \in BOOLEAN : RepoResponse(status, push)
    \/ LoginCommit
    \/ RequestLogout
    \/ CancelLogout
    \/ ConfirmLogout
    \/ DashRequest
    \/ \E status \in Statuses : DashResponse(status)

\* one session's adapter: client 1 calls any of the operations
AuthNext ==
    \/ \E p \in WPaths, content \in Contents, sha \in Shas : UpdateCall(1, p, content, sha)
    \/ \E net \in Nets : UpdatePut(1, net)
    \/ \E p \in WPaths, sha \in Shas : DeleteCall(1, p, sha)
    \/ \E net \in Nets : DeleteReq(1, net)
    \/ \E p \in WPaths, content \in Contents : CreateCall(1, p, content)
    \/ \E net \in Nets : CreateSha(1, net)
    \/ \E net \in Nets : CreatePut(1, net)
    \/ \E p \in WPaths, content \in Contents, sha \in Shas \cup {NoSha} :
          UploadCall(1, p, content, sha)
    \/ \E net \in Nets : UploadSha(1, net)
    \/ \E net \in Nets : UploadPut(1, net)
    \/ \E p \in WPaths : ReadCall(1, p)
    \/ \E net \in Nets : ReadReq(1, net)
    \/ \E d \in LDirs : ListCall(1, d)
    \/ \E net \in Nets : ListReq(1, net)
    \/ \E d \in LfDirs : ListFilesCall(1, d)
    \/ \E net \in Nets : LfRepo(1, net)
    \/ /\ pc[1] = "lf_tree"
       /\ \E net \in TreeNets : \E keep \in TreeResponses(net) : LfTree(1, net, keep)
    \/ \E net \in Nets : LfFallback(1, net)

\* ----------------------------------------------------------------------
\* Component handlers: PostWorkflow.handlePublish, PostDetailView.handleSave
\* and the two replace-post-file handlers
\* ----------------------------------------------------------------------
\* the post the handlers work on, and the image lists of a publish
FlowPost == P_pa
ImageLists == {<< >>, <<P_psb>>, <<P_psb, P_pqc>>}

\* the request stage and the target path of the adapter call the handler
\* is awaiting
FlowStage(f) == IF f.pc \in {"upload_sha", "upload_put"} THEN "upload" ELSE "post"
FlowTarget(f) == IF FlowStage(f) = "upload" THEN f.images[f.i] ELSE f.post.path

\* variant: a failed upload is skipped and the loop goes on
handlePublishKeepGoing(f, stage, err) ==
    IF stage = "upload" /\ f.i < Len(f.images)
    THEN [f EXCEPT !.pc = "upload_sha", !.i = @ + 1]
    ELSE IF stage = "upload" THEN [f EXCEPT !.pc = "create_sha"]
         ELSE IF err # NoErr
              THEN [f EXCEPT !.pc = "done", !.publishStatus = "error",
                             !.errorMessage = err]
              ELSE [f EXCEPT !.pc = "done", !.onAction = @ + 1,
                             !.publishStatus = "success", !.timer = TRUE]

\* handlePublish after an awaited adapter call: the catch, the next image,
\* the post, and the lines after the post was created
handlePublishResume(f, stage, err) ==
    IF err # NoErr
    THEN [f EXCEPT !.pc = "done", !.publishStatus = "error", !.errorMessage = err]
    ELSE IF stage = "upload" /\ f.i < Len(f.images)
         THEN [f EXCEPT !.pc = "upload_sha", !.i = @ + 1]
         ELSE IF stage = "upload" THEN [f EXCEPT !.pc = "create_sha"]
              ELSE [f EXCEPT !.pc = "done", !.onAction = @ + 1,
                             !.publishStatus = "success", !.timer = TRUE]

\* variant: a rejected save is repeated with the hash the path has now
handleSaveRetry(f, err) ==
    IF err # NoErr
    THEN [f EXCEPT !.pc = "update_put", !.post = [@ EXCEPT !.sha = ShaOf(remote, f.post.path)]]
    ELSE [f EXCEPT !.pc = "done", !.onAction = @ + 1, !.onUpdate = @ + 1,
                   !.refresh = TRUE, !.isDirty = FALSE,
                   !.saved = @ + 1, !.foreign = FALSE]

\* handleSave after `await gitService.updateFileContent(...)`: onAction,
\* onUpdate (the list's fetchPosts) and setIsDirty(false), or the alert
handleSaveResume(f, err) ==
    IF err # NoErr
    THEN [f EXCEPT !.pc = "done", !.alerted = err]
    ELSE [f EXCEPT !.pc = "done", !.onAction = @ + 1, !.onUpdate = @ + 1,
                   !.refresh = TRUE, !.isDirty = FALSE,
                   !.saved = @ + 1, !.foreign = FALSE]

\* the reader.onload callback of confirmUpdatePostFile (view "list") and of
\* confirmUpdateFile (view "detail") after its await: the callback runs
\* outside the handler's try, so a rejection is caught by nothing
confirmUpdateResume(f, err) ==
    IF err # NoErr
    THEN [f EXCEPT !.pc = "done", !.unhandled = err]
    ELSE [f EXCEPT !.pc = "done", !.onAction = @ + 1, !.onUpdate = @ + 1,
                   !.refresh = TRUE,
                   !.onBack = @ + (IF f.view = "detail" THEN 1 ELSE 0),
                   !.foreign = FALSE]

FlowResume(f, stage, err) ==
    CASE f.kind = "publish" -> handlePublishResume(f, stage, err)
      [] f.kind = "save" -> handleSaveResume(f, err)
      [] f.kind = "replace" -> confirmUpdateResume(f, err)

\* a handler starts: its log of write requests is empty
FlowBegin(f, kind, next) ==
    [f EXCEPT !.kind = kind, !.pc = next, !.log = << >>, !.err = NoErr,
              !.net = "ok", !.alerted = NoErr, !.unhandled = NoErr,
              !.runs = @ + 1]

\* handlePublish up to its first await; `if (!postFile || !postContent) return`
PublishStart(ready, imgs, content) ==
    /\ flow.kind = "none"
    /\ flow' = IF ~ready THEN flow
               ELSE [FlowBegin(flow, "publish",
                               IF imgs = << >> THEN "create_sha" ELSE "upload_sha")
                     EXCEPT !.images = imgs, !.i = IF imgs = << >> THEN 0 ELSE 1,
                            !.content = content,
                            !.post = [path |-> FlowPost, sha |-> NoSha],
                            !.publishStatus = "idle", !.errorMessage = NoErr]
    /\ UNCHANGED <<remote, dialect>>

\* setTimeout(() => { onComplete(); }, 2000)
PublishTimer ==
    /\ flow.timer
    /\ flow' = [flow EXCEPT !.timer = FALSE, !.onComplete = @ + 1]
    /\ UNCHANGED <<remote, dialect>>

\* a post of the fetched list is opened in the editor (setSelectedPost) or
\* picked for a file replacement (handleUpdatePostFile)
OpenPost(view) ==
    /\ flow.kind = "none"
    /\ remote[FlowPost] # Absent
    /\ flow' = [flow EXCEPT !.kind = "open", !.view = view,
                            !.post = [path |-> FlowPost, sha |-> ShaOf(remote, FlowPost)],
                            !.listed = ShaOf(remote, FlowPost)]
    /\ UNCHANGED <<remote, dialect>>

\* the body or the frontmatter is edited: setIsDirty(true)
EditPost(content) ==
    /\ flow.view = "detail"
    /\ flow.pc \in {"idle", "done"}
    /\ flow.onBack = 0
    /\ flow.runs < MaxRuns
    /\ flow' = [flow EXCEPT !.isDirty = TRUE, !.content = content]
    /\ UNCHANGED <<remote, dialect>>

\* handleSave up to its await; `if (!isDirty) return`
SaveStart ==
    /\ flow.view = "detail"
    /\ flow.pc \in {"idle", "done"}
    /\ flow.onBack = 0
    /\ flow.runs < MaxRuns
    /\ flow' = IF ~flow.isDirty THEN flow ELSE FlowBegin(flow, "save", "update_put")
    /\ UNCHANGED <<remote, dialect>>

\* confirmUpdatePostFile / confirmUpdateFile: the handler itself only starts
\* the FileReader; `if (!file || !postToUpdateFile) return`
ReplaceStart(picked, content) ==
    /\ flow.view \in {"list", "detail"}
    /\ flow.pc \in {"idle", "done"}
    /\ flow.onBack = 0
    /\ flow.runs < MaxRuns
    /\ flow' = IF ~picked THEN flow
               ELSE [FlowBegin(flow, "replace", "reading") EXCEPT !.content = content]
    /\ UNCHANGED <<remote, dialect>>

\* reader.onload fires and the callback runs up to its await
ReplaceLoaded ==
    /\ flow.pc = "reading"
    /\ flow' = [flow EXCEPT !.pc = "update_put"]
    /\ UNCHANGED <<remote, dialect>>

\* `await this.getFileSha(path)` inside uploadFile and createFileFromString
FlowLookup(net) ==
    /\ flow.pc \in {"upload_sha", "create_sha"}
    /\ LET p == FlowTarget(flow)
           resp == Served(net, ServerGet(remote, p), remote)
           got == getFileSha(resp.status, ShaOf(remote, p))
           exists == flow.pc = "create_sha" /\ createFileExists(got.sha)
           err == IF got.err # NoErr THEN got.err
                  ELSE IF exists THEN AlreadyExists ELSE NoErr
       IN flow' = IF err # NoErr
                  THEN FlowResume([flow EXCEPT !.err = err, !.net = net],
                                  FlowStage(flow), err)
                  ELSE [flow EXCEPT !.final = got.sha,
                                    !.pc = IF flow.pc = "upload_sha"
                                           THEN "upload_put" ELSE "create_put"]
    /\ UNCHANGED <<remote, dialect>>

\* the write request of the awaited adapter call, and the handler's lines
\* after the await
FlowRequest(f) ==
    CASE f.pc = "upload_put" -> uploadFileReq(dialect, FlowTarget(f), "x", f.final)
      [] f.pc = "create_put" -> createFileReq(dialect, f.post.path, f.content)
      [] f.pc = "update_put" ->
            updateFileContentReq(dialect, f.post.path, f.content, f.post.sha)

FlowWrite(net) ==
    /\ flow.pc \in {"upload_put", "create_put", "update_put"}
    /\ LET req == FlowRequest(flow)
           resp == Served(net, ServerWrite(dialect, remote, req), remote)
           err == makeRequest(resp.status).err
       IN /\ remote' = resp.remote
          /\ flow' = FlowResume(
                        [flow EXCEPT !.err = err, !.net = net,
                                     !.log = Append(@, [path |-> req.path,
                                                        sha |-> req.sha,
                                                        ok |-> err = NoErr])],
                        FlowStage(flow), err)
    /\ UNCHANGED dialect

\* fetchPosts, called as onUpdate: setPosts with the hashes of a fresh
\* listing; selectedPost and postToUpdateFile are not touched
fetchPosts(net) ==
    /\ flow.refresh
    /\ flow' = [flow EXCEPT !.refresh = FALSE,
                            !.listed = IF net = "ok" THEN ShaOf(remote, FlowPost) ELSE @]
    /\ UNCHANGED <<remote, dialect>>

\* another client commits to the post's path
OtherClientWrite(content) ==
    /\ flow.others < MaxOthers
    /\ remote[FlowPost] # content
    /\ remote' = [remote EXCEPT ![FlowPost] = content]
    /\ flow' = [flow EXCEPT !.others = @ + 1, !.foreign = TRUE]
    /\ UNCHANGED dialect

WInit ==
    /\ remote \in {r \in [FileUniverse -> {"x", Absent}] : r[P_r] = "x"}
    /\ dialect \in Dialects
    /\ pc = [c \in Clients |-> "idle"]
    /\ args = [c \in Clients |-> NoArgs]
    /\ prev = NoWrite
    /\ last = NoCall
    /\ calls = 0
    /\ faults = 0
    /\ app = [AppMounted EXCEPT !.isLoading = FALSE]
    /\ storage = NoStorage
    /\ login = NoLogin
    /\ pending = 0
    /\ evt = NoEvt
    /\ scan = NoScan
    /\ sniff = NoSniff
    /\ codec = NoCodec
    /\ sync = NoSync
    /\ flow = NoFlow

WNext ==
    \/ \E ready \in BOOLEAN, imgs \in ImageLists, content \in Contents :
          PublishStart(ready, imgs, content)
    \/ PublishTimer
    \/ \E view \in {"list", "detail"} : OpenPost(view)
    \/ \E content \in Contents : EditPost(content)
    \/ SaveStart
    \/ \E picked \in BOOLEAN, content \in Contents : ReplaceStart(picked, content)
    \/ ReplaceLoaded
    \/ \E net \in Nets : FlowLookup(net)
    \/ \E net \in Nets : FlowWrite(net)
    \/ \E net \in Nets : fetchPosts(net)
    \/ \E content \in Contents \cup {Absent} : OtherClientWrite(content)

\* ----------------------------------------------------------------------
\* Dashboard: handleAction and the sync polling effect
\* ----------------------------------------------------------------------
\* the 10 s buffer of checkSync, in clock units of 5 s
SyncBuffer == 2
Times == 0..MaxTime

\* variant: a failed poll gives up polling
checkSyncGivesUp(s, captured, net) ==
    IF net # "ok"
    THEN [s EXCEPT !.lastWriteTime = 0]
    ELSE IF s.pushedAt >= captured - SyncBuffer
         THEN [s EXCEPT !.currentRepo = s.pushedAt, !.isSynced = TRUE,
                        !.lastWriteTime = 0]
         ELSE [s EXCEPT !.currentRepo = s.pushedAt]

\* checkSync once getRepoDetails is answered; captured is the lastWriteTime
\* of the effect run that created this checkSync
checkSync(s, captured, net) ==
    IF net # "ok"
    THEN s
    ELSE IF s.pushedAt >= captured - SyncBuffer
         THEN [s EXCEPT !.currentRepo = s.pushedAt, !.isSynced = TRUE,
                        !.lastWriteTime = 0]
         ELSE [s EXCEPT !.currentRepo = s.pushedAt]

\* handleAction, and the effect it re-runs when lastWriteTime changed: the
\* old interval is cleared and checkSync is called at once
handleAction ==
    /\ sync.writes < MaxWrites
    /\ sync.lastWriteTime # sync.now => sync.polls[sync.now] < MaxPolls
    /\ sync' = [sync EXCEPT !.step = "action", !.writes = @ + 1,
                            !.lastWriteTime = sync.now, !.isSynced = FALSE,
                            !.polls = IF sync.lastWriteTime # sync.now
                                      THEN [@ EXCEPT ![sync.now] = @ + 1] ELSE @]

\* setInterval(checkSync, 3000) of the current effect run fires
SyncInterval ==
    /\ sync.lastWriteTime # 0
    /\ sync.polls[sync.lastWriteTime] < MaxPolls
    /\ sync' = [sync EXCEPT !.step = "interval",
                            !.polls = [@ EXCEPT ![sync.lastWriteTime] = @ + 1]]

\* a getRepoDetails of a checkSync is answered
SyncResponse(captured, net) ==
    /\ sync.polls[captured] > 0
    /\ sync' = [checkSync([sync EXCEPT !.polls = [@ EXCEPT ![captured] = @ - 1]],
                          captured, net)
                EXCEPT !.step = "poll", !.answered = captured,
                       !.returned = IF net = "ok" THEN sync.pushedAt ELSE -1]

\* Date.now() advances
ClockTick ==
    /\ sync.now < MaxTime
    /\ sync' = [sync EXCEPT !.step = "clock", !.now = @ + 1]

\* the hosting service registers a push
ServerPush ==
    /\ sync.pushedAt < sync.now
    /\ sync' = [sync EXCEPT !.step = "push", !.pushedAt = sync.now]

DInit ==
    /\ remote = [p \in FileUniverse |-> Absent]
    /\ dialect \in Dialects
    /\ pc = [c \in Clients |-> "idle"]
    /\ args = [c \in Clients |-> NoArgs]
    /\ prev = NoWrite
    /\ last = NoCall
    /\ calls = 0
    /\ faults = 0
    /\ app = [AppMounted EXCEPT !.isLoading = FALSE]
    /\ storage = NoStorage
    /\ login = NoLogin
    /\ pending = 0
    /\ evt = NoEvt
    /\ scan = NoScan
    /\ sniff = NoSniff
    /\ codec = NoCodec
    /\ sync = NoSync
    /\ flow = NoFlow

DNext ==
    \/ handleAction
    \/ SyncInterval
    \/ \E captured \in Times, net \in {"ok", "fail"} : SyncResponse(captured, net)
    \/ ClockTick
    \/ ServerPush

\* ----------------------------------------------------------------------
\* Specifications
\* ----------------------------------------------------------------------
\* two clients of one repository issuing adapter calls
Spec == PInit /\ [][PNext /\ UNCHANGED avars /\ UNCHANGED dvars /\ UNCHANGED xvars]_vars

\* listFiles on a repository that holds still
SpecList == LInit /\ [][LNext /\ UNCHANGED avars /\ UNCHANGED dvars /\ UNCHANGED xvars]_vars

\* one adapter running every operation, with requests that can be refused
SpecAuth == PInit /\ [][AuthNext /\ UNCHANGED avars /\ UNCHANGED dvars /\ UNCHANGED xvars]_vars

\* the directory scans of the setup, on repositories that hold still
SpecScan == SInit /\ [][SNext /\ UNCHANGED avars /\ UNCHANGED xvars]_vars

\* the scans when every listing request is answered in the end
SpecScanLive ==
    SInit /\ [][SNext /\ UNCHANGED avars /\ UNCHANGED xvars]_vars
          /\ WF_vars((\E item \in scan.pending, net \in Nets : ScanResponse(item, net))
                        /\ UNCHANGED avars /\ UNCHANGED xvars)

\* findProductionUrl
SpecSniff == FInit /\ [][FNext /\ UNCHANGED avars /\ UNCHANGED xvars]_vars

\* a text written by either adapter and read back
SpecCodec ==
    CInit /\ [][CNext /\ UNCHANGED <<remote, pc, args, last, prev, calls, faults>>
                    /\ UNCHANGED avars /\ UNCHANGED dvars
                    /\ UNCHANGED <<sync, flow>>]_vars

\* the component handlers writing to a repository another client commits to
SpecFlow ==
    WInit /\ [][WNext /\ UNCHANGED <<pc, args, last, prev, calls, faults>>
                    /\ UNCHANGED avars /\ UNCHANGED dvars
                    /\ UNCHANGED <<codec, sync>>]_vars

\* the Dashboard's sync indicator
SpecSync ==
    DInit /\ [][DNext /\ UNCHANGED pvars /\ UNCHANGED avars /\ UNCHANGED dvars
                    /\ UNCHANGED <<codec, flow>>]_vars

\* the sync indicator when the interval keeps firing and polls are answered
\* by the service again and again
SpecSyncLive ==
    DInit /\ [][DNext /\ UNCHANGED pvars /\ UNCHANGED avars /\ UNCHANGED dvars
                    /\ UNCHANGED <<codec, flow>>]_vars
          /\ WF_vars(SyncInterval /\ UNCHANGED pvars /\ UNCHANGED avars
                        /\ UNCHANGED dvars /\ UNCHANGED <<codec, flow>>)
          /\ SF_vars((\E captured \in Times : SyncResponse(captured, "ok"))
                        /\ UNCHANGED pvars /\ UNCHANGED avars
                        /\ UNCHANGED dvars /\ UNCHANGED <<codec, flow>>)

\* the App and the requests of its Dashboard
SpecApp == AInit /\ [][ANext /\ UNCHANGED pvars /\ UNCHANGED dvars /\ UNCHANGED xvars]_vars

\* ----------------------------------------------------------------------
\* Properties of the write protocol (specification Spec)
\* ----------------------------------------------------------------------
ShaOfContent(v) == IF v = Absent THEN NoSha ELSE BlobSha(v)

\* the call that completed last had its final request served by the backend
ServedCall(op) == last.op = op /\ last.net = "ok"

\* C1: an updateFileContent whose write is served succeeds iff the hash it
\* carries is the path's remote hash at that moment; it then installs the new
\* content, and with any other hash it fails with Conflict and changes nothing.
C1_UpdateIffHashCurrent ==
    ServedCall("update") =>
        /\ (last.err = NoErr) <=> (last.sha = ShaOfContent(last.pre))
        /\ last.err = NoErr => last.post = last.content
        /\ last.err # NoErr => IsConflict(last.err) /\ last.post = last.pre

\* an update was rejected with Conflict after another update had succeeded
C1_Witness ==
    /\ ServedCall("update") /\ IsConflict(last.err)
    /\ last.pre # Absent /\ last.sha # ShaOfContent(last.pre)
    /\ last.before.op = "update"

\* the call that completed last is an update carrying the same hash as the
\* latest successful write, an update of the same path
SameHashAsWinner ==
    /\ ServedCall("update")
    /\ last.before.op = "update"
    /\ last.before.path = last.path
    /\ last.before.sent = last.sha

Concurrent == last.overtaken /\ last.before.client # last.client

LoserRejected == IsConflict(last.err) /\ last.post = last.before.content

\* C2 as stated: of two concurrent updates carrying the same hash the second
\* to reach the backend always fails with Conflict and the winner's content
\* stays.
C2_Original == (SameHashAsWinner /\ Concurrent) => LoserRejected

\* C2: of two concurrent updates carrying the same hash h, when the first to
\* reach the backend changes the content, the second fails with Conflict and
\* the remote content stays the winner's; when the winner rewrote the content
\* the file already had, the hash is still h and the second succeeds too.
C2_ConcurrentUpdates ==
    (SameHashAsWinner /\ Concurrent) =>
        IF last.before.content # last.before.replaced
        THEN LoserRejected
        ELSE last.err = NoErr /\ last.post = last.content

\* two updates with the same hash raced and the second one lost
C2_Witness ==
    /\ SameHashAsWinner /\ Concurrent
    /\ last.before.content # last.before.replaced
    /\ IsConflict(last.err)
    /\ remote[last.path] = last.before.content

\* C3 as stated: after a successful update with hash h the remote hash is no
\* longer h, and a following update with h fails with Conflict.
C3_Original ==
    /\ (last.op = "update" /\ last.err = NoErr) =>
            ShaOfContent(last.post) # last.sha
    /\ (SameHashAsWinner /\ ~last.overtaken) => LoserRejected

\* C3: after a successful update with hash h that changed the content, the
\* remote hash is no longer h, and a following update of the path with the
\* same h fails with Conflict and leaves the first call's content in place.
C3_StaleHashRejected ==
    /\ (last.op = "update" /\ last.err = NoErr /\ last.content # last.pre) =>
            ShaOfContent(last.post) # last.sha
    /\ (SameHashAsWinner /\ ~last.overtaken
            /\ last.before.content # last.before.replaced) => LoserRejected

\* a second, sequential update with the stale hash was rejected
C3_Witness ==
    /\ SameHashAsWinner /\ ~last.overtaken
    /\ last.before.content # last.before.replaced
    /\ IsConflict(last.err)
    /\ remote[last.path] = last.before.content

\* C4: a createFileFromString whose last request found a file at the path
\* fails with Conflict and leaves that file as it was, whatever the content.
C4_CreateNeverUpserts ==
    (ServedCall("create") /\ last.pre # Absent) =>
        /\ IsConflict(last.err)
        /\ last.post = last.pre
        /\ remote[last.path] = last.pre

\* a create with the very content the file already has was rejected
C4_Witness ==
    /\ ServedCall("create") /\ last.pre # Absent
    /\ last.content = last.pre
    /\ IsConflict(last.err)

\* C5: a served deleteFile removes the file iff its hash is the path's
\* current hash; on an existing path with another hash it fails with Conflict
\* and on an absent path it fails with NotFound.
C5_DeleteChecksHash ==
    ServedCall("delete") =>
        /\ (last.pre # Absent /\ last.sha = ShaOfContent(last.pre)) =>
                last.err = NoErr /\ last.post = Absent
        /\ (last.pre # Absent /\ last.sha # ShaOfContent(last.pre)) =>
                IsConflict(last.err) /\ last.post = last.pre
        /\ last.pre = Absent => IsNotFound(last.err) /\ last.post = Absent

\* a delete of a path that an earlier delete had removed reported NotFound
C5_Witness ==
    /\ ServedCall("delete") /\ last.pre = Absent
    /\ last.before.op = "delete" /\ last.before.sent = last.sha
    /\ IsNotFound(last.err)

\* C6: an uploadFile called without a hash whose lookup and write are served
\* succeeds (creating or updating) when the path is as the lookup found it,
\* and is rejected with Conflict, leaving the path untouched, when the file
\* was created, changed or removed in between.
C6_UploadRace ==
    (ServedCall("upload") /\ last.sha = NoSha /\ last.wrote) =>
        /\ last.checked
        /\ last.sent = ShaOfContent(last.chk)
        /\ last.pre = last.chk => last.err = NoErr /\ last.post = last.content
        /\ last.pre # last.chk => IsConflict(last.err) /\ last.post = last.pre

\* another client's write landed between the lookup and the write of an upload
C6_Witness ==
    /\ ServedCall("upload") /\ last.sha = NoSha /\ last.wrote
    /\ last.overtaken /\ last.pre # last.chk /\ last.pre # Absent
    /\ IsConflict(last.err)
    /\ remote[last.path] = last.before.content

\* the step completes a getFileContent or a getRepoContents
ReadCompletes ==
    \E c \in Clients : pc[c] \in {"read_req", "list_req"} /\ pc'[c] = "idle"

MissingPath(e) ==
    IF e.op = "read" THEN remote[e.path] = Absent
    ELSE ~(e.path \in DirsOf(remote))

\* C7: a served getFileContent or getRepoContents of a path that does not
\* exist rejects with NotFound and returns nothing; no read changes the
\* repository.
C7_MissingPathNotFound ==
    [][ReadCompletes =>
          /\ remote' = remote
          /\ (last'.net = "ok" /\ MissingPath(last')) =>
                /\ IsNotFound(last'.err)
                /\ last'.value = "" /\ last'.list = {}]_vars

\* a read of a missing file failed with the 404 error
C7_Witness ==
    /\ ServedCall("read") /\ remote[last.path] = Absent
    /\ IsNotFound(last.err)

\* ----------------------------------------------------------------------
\* Properties of listFiles (specification SpecList)
\* ----------------------------------------------------------------------
FilePaths(list) == {e.path : e \in {x \in list : x.type = "file"}}

\* what each route of listFiles returns for the repository as it is
FastFiles(d) == FilePaths(listFilesTree(TreeOf(remote), d))
ShallowFiles(d) ==
    FilePaths(listFilesShallow(getRepoContents(ServerList(remote, d).status,
                                               ServerList(remote, d).list)).list)

\* the call that completed last is a listFiles that was answered in full by
\* the route it took
FullListFiles == last.op = "listFiles" /\ last.net = "ok" /\ ~last.truncated

\* the files the route not taken returns
OtherRoute == IF last.route = "fast" THEN ShallowFiles(last.path) ELSE FastFiles(last.path)

DirectlyIn(paths, d) == {p \in paths : ParentOf(p) = d}

NoNestedFile(d) ==
    \A f \in FilesOf(remote) :
        (d = EmptyPath \/ StartsWith(f, NormalizedPath(d))) => ParentOf(f) = d

\* C10 as stated: without truncation the fast path and the fallback path of
\* listFiles return the same set of file paths.
C10_Original == FullListFiles => FilePaths(last.list) = OtherRoute

\* C10: without truncation the fallback path returns exactly those file
\* paths of the fast path's result that lie directly in the requested
\* directory; the two results are the same set when no file lies in a nested
\* subdirectory of it.
C10_FallbackIsShallowPart ==
    FullListFiles =>
        /\ last.route = "fast" =>
              /\ FilePaths(last.list) = FastFiles(last.path)
              /\ DirectlyIn(FilePaths(last.list), last.path) = OtherRoute
        /\ last.route = "fallback" =>
              /\ FilePaths(last.list) = ShallowFiles(last.path)
              /\ FilePaths(last.list) = DirectlyIn(OtherRoute, last.path)
        /\ NoNestedFile(last.path) => FilePaths(last.list) = OtherRoute

\* the fast path returned a file of a nested directory that the fallback
\* does not return
C10_Witness ==
    /\ FullListFiles /\ last.route = "fast" /\ last.path = P_p
    /\ P_psb \in FilePaths(last.list)
    /\ ~(P_psb \in OtherRoute)
    /\ P_pa \in OtherRoute

\* C11: a tree response flagged truncated still makes listFiles resolve, on
\* the fast path, with the entries that were returned filtered to the
\* requested prefix; a truncated response never sends the call to the
\* fallback path.
C11_TruncationIsWarning ==
    /\ \A c \in Clients : pc[c] = "lf_fallback" => args[c].body # "truncated"
    /\ (last.op = "listFiles" /\ last.body = "truncated") =>
          /\ last.truncated /\ last.route = "fast" /\ last.err = NoErr
          /\ \E keep \in SUBSET TreeOf(remote) :
                keep # TreeOf(remote) /\ last.list = listFilesTree(keep, last.path)

\* a truncated response gave a partial, non-empty list
C11_Witness ==
    /\ last.op = "listFiles" /\ last.body = "truncated" /\ last.route = "fast"
    /\ last.list # {}
    /\ last.list # listFilesTree(TreeOf(remote), last.path)

\* the entries of the shallow listing of d, as listFiles maps them
ShallowEntries(d) ==
    {Entry(item.path, IF item.type = "file" THEN "file" ELSE "dir", item.sha) :
        item \in ServerList(remote, d).list}

\* C12: a failure of the repository request, of the tree request or of the
\* processing of the tree response sends listFiles to the fallback, which
\* issues no further tree request and returns the shallow listing of the
\* requested path: every entry lies directly in it.
C12_FallbackIsShallowListing ==
    [][/\ (pc[1] = "lf_repo" /\ args'[1].heard.err # NoErr) => pc'[1] = "lf_fallback"
       /\ (pc[1] = "lf_tree" /\ pc'[1] # "idle") =>
             (args'[1].heard.err # NoErr \/ args'[1].body = "malformed")
       /\ (pc[1] = "lf_tree" /\ pc'[1] = "idle") =>
             (last'.heard.err = NoErr /\ last'.body \in {"whole", "truncated"}
                /\ last'.route = "fast")
       /\ pc[1] = "lf_fallback" =>
             /\ pc'[1] = "idle" /\ last'.route = "fallback"
             /\ last'.net = "ok" => last'.list = ShallowEntries(last'.path)
             /\ \A e \in last'.list : ParentOf(e.path) = last'.path]_vars

\* the tree response had no tree; the fallback listed a directory that has
\* a file, a subdirectory and a file nested in that subdirectory
C12_Witness ==
    /\ last.op = "listFiles" /\ last.route = "fallback" /\ last.body = "malformed"
    /\ last.net = "ok"
    /\ \E e \in last.list : e.type = "dir"
    /\ \E e \in last.list : e.type = "file"
    /\ \E f \in FilesOf(remote) :
          StartsWith(f, NormalizedPath(last.path)) /\ ParentOf(f) # last.path

\* C13 as stated: when the fast path has failed and the shallow fallback
\* listing fails too, listFiles rejects with that error.
C13_FallbackFailurePropagates ==
    (last.op = "listFiles" /\ last.route = "fallback" /\ last.heard.err # NoErr) =>
        last.err = last.heard.err

\* ----------------------------------------------------------------------
\* Properties of the 401 handling (specification SpecAuth)
\* ----------------------------------------------------------------------
CallRecords == {last} \cup {args[c] : c \in Clients}

\* the operations that return normally although a request of theirs failed
Swallows(e) == e.op = "listFiles"

LoggedOut ==
    /\ \A f \in SessionFields : app[f] = Null
    /\ \A k \in StorageKeys : storage[k] = Null

\* C9: a step that raises 'auth-error' leaves the App logged out (the five
\* session fields null, the five sessionStorage entries removed), and the
\* Dashboard is rendered again only by a login or a session restore that
\* succeeds.
C9_AuthErrorLogsOut ==
    [][/\ evt'.kind = "auth-error" => (LoggedOut' /\ ~Active(app'))
       /\ (~Active(app) /\ Active(app')) => evt'.kind \in {"login-ok", "restore-ok"}]_vars

\* the signal was raised while the Dashboard was shown and another request
\* of the Dashboard is still in flight
C9_Witness ==
    /\ evt.kind = "auth-error" /\ evt.wasActive
    /\ LoggedOut
    /\ pending > 0

\* ----------------------------------------------------------------------
\* Properties of the directory scans (specifications SpecScan, SpecScanLive)
\* ----------------------------------------------------------------------
ScanDone == scan.phase = "done"

ScanReturned == {scan.result[i] : i \in 1..Len(scan.result)}

\* d directly contains a file the scan is looking for
HasDirectMatch(d) ==
    \E f \in FilesOf(remote) : ParentOf(f) = d /\ fileCheck(scan.kind, LastSegment(f))

\* d is, or lies beneath, a directory with an ignored name
Pruned(d) ==
    \E q \in {d} \cup AncestorsOf(d) : toLowerCase(LastSegment(q)) \in ignoredDirs

\* p lies beneath the directory f
Beneath(p, f) == p # f /\ (f = EmptyPath \/ StartsWith(p, f \o <<"/">>))

\* the depth of a directory: the number of its path segments, 0 for the root
DepthOf(d) == IF d = EmptyPath THEN 0 ELSE SplitLength(d)

F_root == <<"r", ".", "m", "d">>
F_posts == <<"p", "o", "s", "t", "s", "/", "a", ".", "m", "d">>
F_sub == <<"p", "o", "s", "t", "s", "/", "s", "u", "b", "/", "b", ".", "m", "d">>
F_git == <<".", "g", "i", "t", "/", "c", ".", "m", "d">>
F_deep == <<"a", "/", "b", "/", "c", "/", "d", ".", "m", "d">>
F_deeper == <<"a", "/", "b", "/", "c", "/", "d", "/", "e", ".", "m", "d">>
D_posts == <<"p", "o", "s", "t", "s">>
D_sub == <<"p", "o", "s", "t", "s", "/", "s", "u", "b">>
D_abc == <<"a", "/", "b", "/", "c">>
D_abcd == <<"a", "/", "b", "/", "c", "/", "d">>
D_images == <<"i", "m", "a", "g", "e", "s">>

\* C14: no listing is requested for a directory with an ignored name
\* (compared in lower case) or for anything beneath one, and every directory
\* the scan finds directly contains a matching file.
C14_PrunedAndNonTransitive ==
    /\ \A d \in scan.listed : ~Pruned(d)
    /\ \A d \in scan.foundDirs \cup ScanReturned : HasDirectMatch(d) /\ ~Pruned(d)

\* posts/a.md, posts/sub/b.md and .git/c.md: posts and posts/sub are
\* returned, each for its own file, and .git was never listed
C14_Witness ==
    /\ ScanDone /\ scan.kind = "content" /\ scan.failed = {}
    /\ FilesOf(remote) = {F_posts, F_sub, F_git}
    /\ scan.result = <<D_posts, D_sub>>
    /\ scan.listed = {EmptyPath, D_posts, D_sub}

\* C15 as stated: every directory listed successfully, the root included,
\* that directly contains a matching file is in the returned list.
C15_Original ==
    ScanDone => \A d \in scan.listed \ scan.failed : HasDirectMatch(d) => d \in ScanReturned

\* C15: every directory other than the root that the scan lists successfully
\* and that directly contains a matching file is in the returned list; the
\* root itself is never returned.
C15_ListedHitsReturned ==
    /\ ScanDone =>
          \A d \in (scan.listed \ scan.failed) \ {EmptyPath} :
              HasDirectMatch(d) => d \in ScanReturned
    /\ ~(EmptyPath \in scan.foundDirs \cup ScanReturned)

\* the root holds a matching file and is not returned, posts is
C15_Witness ==
    /\ ScanDone /\ scan.kind = "content" /\ ~(EmptyPath \in scan.failed)
    /\ remote[F_root] # Absent /\ remote[F_posts] # Absent
    /\ D_posts \in ScanReturned
    /\ ~(EmptyPath \in ScanReturned)

\* C16: when the image scan finds public/images and another directory,
\* public/images is the first element of the returned list.
C16_PublicImagesFirst ==
    (ScanDone /\ scan.kind = "image" /\ Len(scan.result) >= 2
        /\ \E d \in scan.foundDirs : toLowerCase(d) = PublicImages) =>
            toLowerCase(scan.result[1]) = PublicImages

\* public/images comes before images, which is preferred and shallower
C16_Witness ==
    /\ ScanDone /\ scan.kind = "image"
    /\ scan.result = <<PublicImages, D_images>>

\* a may come before b: preferred names first, then fewer segments, then
\* alphabetical
InOrder(a, b) ==
    LET aPreferred == toLowerCase(LastSegment(a)) \in preferredDirNames(scan.kind)
        bPreferred == toLowerCase(LastSegment(b)) \in preferredDirNames(scan.kind)
    IN IF aPreferred # bPreferred THEN aPreferred
       ELSE IF SplitLength(a) # SplitLength(b) THEN SplitLength(a) < SplitLength(b)
       ELSE localeCompare(a, b) < 0

IsPermutationOfHits ==
    /\ ScanReturned = scan.foundDirs
    /\ Len(scan.result) = Cardinality(scan.foundDirs)

\* C17 as stated: the list a scan returns is a permutation of the hits
\* ordered by preferred name, then depth, then alphabet.
C17_Original ==
    ScanDone =>
        /\ IsPermutationOfHits
        /\ \A i, j \in 1..Len(scan.result) :
              i < j => InOrder(scan.result[i], scan.result[j])

\* C17: the list a scan returns is a permutation of the hits; the list of
\* the content scan is ordered by preferred name, then depth, then alphabet,
\* and so is the list of the image scan apart from public/images, which
\* comes first.
C17_SortedPermutation ==
    ScanDone =>
        /\ IsPermutationOfHits
        /\ \A i, j \in 1..Len(scan.result) :
              (i < j /\ (scan.kind = "content"
                           \/ toLowerCase(scan.result[i]) # PublicImages)) =>
                  InOrder(scan.result[i], scan.result[j])
        /\ \A i \in 2..Len(scan.result) :
              (scan.kind = "image" /\ toLowerCase(scan.result[i]) = PublicImages) =>
                  toLowerCase(scan.result[1]) = PublicImages

\* three hits of the content scan: the preferred one first, then the
\* shallower of the other two although it is later in the alphabet
C17_Witness ==
    /\ ScanDone /\ scan.kind = "content"
    /\ scan.result = <<D_posts, D_sub, D_abc>>
    /\ localeCompare(D_abc, D_sub) < 0

\* C18: a scan never rejects; a directory whose listing failed is not
\* returned and nothing beneath it is listed or returned; the returned
\* directories are exactly the hits among the directories listed
\* successfully; when the listing of the root fails the result is empty.
C18_ScanNeverRejects ==
    /\ scan.err = NoErr
    /\ \A f \in scan.failed :
          \A d \in scan.listed \cup scan.foundDirs : ~Beneath(d, f)
    /\ ScanDone =>
          /\ ScanReturned = {d \in (scan.listed \ scan.failed) \ {EmptyPath} :
                                HasDirectMatch(d)}
          /\ EmptyPath \in scan.failed => scan.result = << >>

\* the listing of posts failed, which holds a matching file; the hit of a
\* sibling branch is returned
C18_Witness ==
    /\ ScanDone /\ scan.kind = "content"
    /\ scan.failed = {D_posts}
    /\ remote[F_posts] # Absent
    /\ scan.result = <<D_abc>>

\* C19 as stated: every directory down to four levels below the root is
\* listed by a scan without failures.
C19_Original ==
    (ScanDone /\ scan.failed = {}) =>
        \A d \in DirsOf(remote) : (~Pruned(d) /\ DepthOf(d) <= 4) => d \in scan.listed

\* C19: a scan terminates; it lists the root and the directories of one,
\* two and three path segments that are not pruned, and never a directory of
\* four or more segments.
C19_DepthBoundedTermination ==
    /\ [](\A d \in scan.listed : DepthOf(d) < maxDepth)
    /\ []((ScanDone /\ scan.failed = {}) =>
            \A d \in DirsOf(remote) :
                (~Pruned(d) /\ DepthOf(d) < maxDepth) => d \in scan.listed)
    /\ (scan.phase = "running") ~> ScanDone

\* a/b/c is listed and found; a/b/c/d, which holds a matching file, is not
\* listed
C19_Witness ==
    /\ ScanDone /\ scan.kind = "content" /\ scan.failed = {}
    /\ remote[F_deep] # Absent /\ remote[F_deeper] # Absent
    /\ D_abc \in scan.listed /\ D_abc \in ScanReturned
    /\ ~(D_abcd \in scan.listed) /\ ~(D_abcd \in ScanReturned)

\* ----------------------------------------------------------------------
\* Properties of findProductionUrl (specification SpecSniff)
\* ----------------------------------------------------------------------
SniffDone == sniff.phase = "done"

\* the URL a read yields: none when the read failed or its text has no match
Yield(k) ==
    IF sniff.asked[k].ok THEN sniffMatch(k, sniff.asked[k].text) ELSE NoMatch

\* a URL without its last character when that is a slash
OneSlashOff(url) == IF url[Len(url)] = "/" THEN SubSeq(url, 1, Len(url) - 1) ELSE url

\* C20: findProductionUrl reads the files in their fixed order, the
\* configuration files before package.json, goes past every file whose read
\* fails or whose text has no match, and returns the URL of the first file
\* that has one without one trailing slash; it returns null when no file
\* has one, and it never rejects.
C20_FirstUrlInPriorityOrder ==
    /\ sniff.err = NoErr
    /\ Len(sniff.asked) <= Len(SniffOrder)
    /\ \A k \in 1..Len(sniff.asked) : sniff.asked[k].path = SniffOrder[k]
    /\ SniffOrder[Len(SniffOrder)] = PackageJson
    /\ \A k \in 1..Len(sniff.asked) :
          Yield(k) # NoMatch => (SniffDone /\ sniff.found /\ k = Len(sniff.asked))
    /\ (SniffDone /\ sniff.found) =>
          /\ Yield(Len(sniff.asked)) # NoMatch
          /\ sniff.result = OneSlashOff(Yield(Len(sniff.asked)))
    /\ (SniffDone /\ ~sniff.found) =>
          /\ Len(sniff.asked) = Len(SniffOrder)
          /\ sniff.result = << >>

\* astro.config.mjs is read and has no match for its pattern, src/config.yml
\* holds a site with two trailing slashes: one of them is removed
C20_Witness ==
    /\ SniffDone /\ sniff.found
    /\ Len(sniff.asked) = 5
    /\ sniff.asked[1].ok /\ sniff.asked[1].text = "url: \"https://b.dev\""
    /\ sniff.asked[5].text = "site: https://c.dev//"
    /\ sniff.result = <<"h", "t", "t", "p", "s", ":", "/", "/", "c", ".", "d", "e", "v", "/">>

\* ----------------------------------------------------------------------
\* Frame of the write operations (specification Spec)
\* ----------------------------------------------------------------------
\* where a call is suspended on its mutating request, and on a lookup or read
WriteStages == {"update_put", "delete_req", "create_put", "upload_put"}
ReadStages == {"create_sha", "upload_sha", "read_req", "list_req"}

\* C21: a step changes the repository only as the one mutating request of a
\* write call, which ends the call, and then only at the path the call
\* targets; a write that is rejected changes nothing, and the responses to
\* lookups, reads and listings change nothing.
C21_WritesTouchOnlyTarget ==
    [][/\ \A p \in FileUniverse :
             remote'[p] # remote[p] =>
                 \E c \in Clients :
                     /\ pc[c] \in WriteStages /\ pc'[c] = "idle"
                     /\ args[c].path = p
                     /\ last'.client = c /\ last'.wrote /\ last'.err = NoErr
       /\ \A c \in Clients :
             (pc[c] \in WriteStages /\ pc'[c] # pc[c]) =>
                 /\ pc'[c] = "idle"
                 /\ last'.err # NoErr => remote' = remote
       /\ \A c \in Clients :
             (pc[c] \in ReadStages /\ pc'[c] # pc[c]) =>
                 /\ remote' = remote
                 /\ pc'[c] \in WriteStages \cup {"idle"}
                 /\ pc'[c] = "idle" => ~last'.wrote
      ]_vars

\* an upload has replaced the file at its path, the bystander is as it was
C21_Witness ==
    /\ last.op = "upload" /\ last.wrote /\ last.err = NoErr
    /\ last.pre # Absent /\ last.post # last.pre
    /\ remote[last.path] = last.post
    /\ \A q \in Bystanders : remote[q] = "x"

\* C24: createFileFromString issues its write only after a served lookup
\* found no file at the path; a lookup that fails otherwise ends the call
\* with that failure and a lookup that finds a file ends it with "already
\* exists", both without a write; a write that finds a file which appeared
\* after the lookup is rejected and leaves that file as it is, so of two
\* concurrent creates at one path the second to reach the backend fails.
C24_CreateAfterAbsenceCheck ==
    last.op = "create" =>
        /\ last.wrote => (last.checked /\ last.chk = Absent)
        /\ ~last.checked => (~last.wrote /\ last.err # NoErr /\ last.err # AlreadyExists)
        /\ (last.checked /\ last.chk # Absent) => (~last.wrote /\ last.err = AlreadyExists)
        /\ (last.wrote /\ last.pre # Absent) =>
              (last.err # NoErr /\ last.post = last.pre /\ remote[last.path] = last.pre)
        /\ last.err = NoErr => (last.wrote /\ last.pre = Absent /\ last.post = last.content)
        /\ (last.wrote /\ Concurrent /\ last.before.op = "create"
               /\ last.before.path = last.path) =>
              /\ last.err # NoErr /\ remote[last.path] = last.before.content
              /\ last.net = "ok" => IsConflict(last.err)

\* two creates of different contents found the path absent; the second to
\* write was rejected and the file holds what the first one wrote
C24_Witness ==
    /\ last.op = "create" /\ last.wrote /\ last.checked /\ last.chk = Absent
    /\ Concurrent /\ last.before.op = "create" /\ last.before.path = last.path
    /\ last.content # last.before.content
    /\ IsConflict(last.err)
    /\ remote[last.path] = last.before.content

\* ----------------------------------------------------------------------
\* Properties of the text round trip (specification SpecCodec)
\* ----------------------------------------------------------------------
\* C25: after a createFileFromString or an updateFileContent that succeeded
\* with text c, a getFileContent that is served returns exactly c, with
\* either adapter.
C25_WriteReadRoundTrip ==
    (codec.phase = "read" /\ codec.wrote /\ codec.err.kind \in {"none", "decode"}) =>
        (codec.err = NoErr /\ codec.value = codec.text)


\* ----------------------------------------------------------------------
\* Properties of the component handlers (specification SpecFlow)
\* ----------------------------------------------------------------------
\* the path the k-th write request of a publish goes to
PublishPathAt(f, k) == IF k <= Len(f.images) THEN f.images[k] ELSE f.post.path

\* C22: handlePublish issues its writes in order, one image after another
\* and then the post, each only after all earlier ones succeeded; once an
\* upload or the creation of the post has failed no further write is issued
\* and no committed write is undone or repeated, publishStatus is 'error'
\* with the failure as errorMessage, and neither onAction nor onComplete is
\* invoked
C22_PublishStopsAtFailure ==
    flow.kind = "publish" =>
        /\ Len(flow.log) <= Len(flow.images) + 1
        /\ \A k \in 1..Len(flow.log) :
              /\ flow.log[k].path = PublishPathAt(flow, k)
              /\ k < Len(flow.log) => flow.log[k].ok
              /\ flow.log[k].ok /\ k <= Len(flow.images) =>
                    remote[flow.log[k].path] = "x"
        /\ flow.err # NoErr =>
              /\ flow.pc = "done"
              /\ flow.publishStatus = "error"
              /\ flow.errorMessage = flow.err
              /\ flow.onAction = 0 /\ flow.onComplete = 0 /\ ~flow.timer

\* a publish whose second upload failed after the first was committed
C22_Witness ==
    /\ flow.kind = "publish" /\ flow.pc = "done"
    /\ Len(flow.images) = 2 /\ Len(flow.log) = 2
    /\ flow.log[1].ok /\ ~flow.log[2].ok
    /\ flow.publishStatus = "error"

\* a handleSave whose updateFileContent has just been answered
SaveAnswered == flow.kind = "save" /\ flow.pc = "update_put" /\ flow'.pc = "done"

\* C23: when the updateFileContent of a handleSave is rejected the remote
\* file is unchanged, isDirty stays true, the failure is alerted, onAction
\* and onUpdate are not invoked, and the save issues no second write
C23_RejectedSaveBlocks ==
    [][/\ SaveAnswered /\ flow'.err # NoErr =>
             /\ remote' = remote
             /\ flow'.isDirty
             /\ flow'.alerted = flow'.err
             /\ flow'.onAction = flow.onAction /\ flow'.onUpdate = flow.onUpdate
             /\ flow'.refresh = flow.refresh
       /\ flow'.kind = "save" => Len(flow'.log) <= 1]_vars

\* a save rejected with a Conflict after another client changed the post
C23_Witness ==
    /\ flow.kind = "save" /\ flow.pc = "done"
    /\ flow.net = "ok" /\ IsConflict(flow.err) /\ flow.foreign
    /\ flow.isDirty /\ flow.alerted = flow.err

\* C29: a second save from the same open editor, after a first one that
\* succeeded and whose list refresh has completed, with no other client's
\* write in between, sends the post's current remote hash and succeeds
\* when it is served
C29_SecondSaveSucceeds ==
    [][SaveAnswered /\ flow.saved >= 1 /\ ~flow.foreign /\ ~flow.refresh
                    /\ flow'.net = "ok" =>
          /\ flow'.log[1].sha = ShaOf(remote, flow.post.path)
          /\ flow'.err = NoErr]_vars

\* a replace-post-file handler whose updateFileContent has just been rejected
ReplaceRejected ==
    /\ flow.kind = "replace" /\ flow.pc = "update_put"
    /\ flow'.pc = "done" /\ flow'.err # NoErr

\* C30: when the updateFileContent of a replace-post-file handler is
\* rejected the failure is shown to the user, onAction is not raised, the
\* list is not refreshed and no second write is issued
C30_RejectedReplaceSurfaced ==
    [][ReplaceRejected =>
          /\ flow'.alerted # NoErr
          /\ flow'.onAction = flow.onAction /\ flow'.onUpdate = flow.onUpdate
          /\ flow'.refresh = flow.refresh
          /\ Len(flow'.log) = 1]_vars
\* ----------------------------------------------------------------------
\* Properties of the sync indicator (specifications SpecSync, SpecSyncLive)
\* ----------------------------------------------------------------------
\* the poll answered by this step returned a pushed_at within the buffer of
\* the write time its checkSync closed over
PollInBuffer ==
    /\ sync'.step = "poll" /\ sync'.returned >= 0
    /\ sync'.returned >= sync'.answered - SyncBuffer

C27_SyncedByLatestPoll ==
    [][/\ (~sync.isSynced /\ sync'.isSynced) =>
             (sync'.answered = sync.lastWriteTime)
       /\ (sync.lastWriteTime # 0 /\ sync'.lastWriteTime = 0) =>
             (sync'.answered = sync.lastWriteTime)]_vars

\* ----------------------------------------------------------------------
\* Consistency of the App session (specification SpecApp)
\* ----------------------------------------------------------------------
SessionSet(a) == \A f \in SessionFields : a[f] # Null
SessionNull(a) == \A f \in SessionFields : a[f] = Null

\* C28: token, user, selectedRepo, gitService and serviceType are all set
\* or all null; they are set only by the step that ends a login or a
\* session restore whose token was verified and whose repository metadata
\* carried permissions.push, so no session is active on a repository
\* without write permission
C28_SessionAllOrNothing ==
    [][/\ SessionSet(app') \/ SessionNull(app')
       /\ app'.selectedRepo \in {Null, RepoData(TRUE)}
       /\ (\E f \in SessionFields : app[f] = Null /\ app'[f] # Null) =>
             /\ evt'.kind \in {"login-ok", "restore-ok"}
             /\ login.userData # Null
             /\ hasPushPermission(app'.selectedRepo)]_vars

\* a session restored after a reload, on a repository that can be pushed to
C28_Witness ==
    /\ evt.kind = "restore-ok"
    /\ SessionSet(app) /\ Active(app)
    /\ app.selectedRepo = RepoData(TRUE)

====
